---------------------------- MODULE Spec2Model ----------------------------
(***************************************************************************)
(* CipherDrop backend: the session registry (SessionManager.js), the       *)
(* socket.io handlers and HTTP routes of index.js, the chunked upload      *)
(* engine (ChunkedUploadManager.js) and the download route.                *)
(*                                                                         *)
(* Node runs every handler to completion up to its next `await`; each      *)
(* action below is one such synchronous segment.  The code after an        *)
(* `await` is a separate action that other handlers may precede.           *)
(***************************************************************************)
EXTENDS Integers, Sequences, FiniteSets, TLC

(***************************************************************************)
(* Bounds of the model.                                                    *)
(***************************************************************************)
NumCodes == 1
NumSockets == 3
MaxTokens == 3
MaxHistory == 2
MaxRequests == 4
MaxPending == 1
MaxUploads == 1
MaxChunks == 2
MaxFileSize == 2
MaxIndexLen == 2
MaxPuts == 2
MaxInFlight == 1
MaxCompletes == 2
MaxNameLen == 3
MaxSingleSize == 3
NumCleanupSockets == 2
NumLimitCodes == 2
NumStorageSockets == 1
NumFanoutCodes == 2
QuotaUploads == 2
QuotaPuts == 3
ClientChunks == 3

(***************************************************************************)
(* Program constants.                                                      *)
(***************************************************************************)
MaxActiveSessions == 1
DefaultMaxSessions == 5
MaxSessionStorageBytes == 2
DISCONNECT_GRACE_PERIOD == 1200000
UNUSED_SESSION_CLEANUP_PERIOD == 60000
ClientClock == 7
NoToken == 0
NoCode == 0
NoMessage == 0
NoSocket == 0
NoUpload == 0
MaxConcurrentUploads == 3
RetryAttempts == 3
RetryDelay == 1000

Codes == 1..NumCodes
Sockets == 1..NumSockets
Tokens == 1..MaxTokens
UnknownToken == MaxTokens + 1

VARIABLES
  sessions,      \* SessionManager.sessions: matchCode -> session object
  sessionOrder,  \* insertion order of the sessions Map
  sessionLocks,  \* SessionManager.sessionLocks
  nextToken,     \* the next token uuidv4() mints
  deleting,      \* deleteSession calls awaiting the storage-tree removal
  orphanTimers,  \* timers still armed on session objects no longer registered
  sweep,         \* cleanupExpiredSessions in progress: the codes left to delete
  socketState,   \* each socket.io socket: "new" (not yet connected), "open", "closed"
  rooms,         \* socket.io rooms each socket has joined
  inbox,         \* events emitted to each socket, in order
  pending,       \* handler continuations queued behind an await
  recording,     \* whether the events delivered to the sockets are recorded in inbox
  budget,        \* client requests still to come while recording
  uploadInfo,    \* the uploadInfo objects initializeUpload has built, by uploadId
  uploads,       \* ChunkedUploadManager.uploads: the uploadIds the Map holds
  nextUpload,    \* the next uploadId crypto.randomUUID() mints
  chunkDirs,     \* the temp directories on disk: uploadId -> (chunk file name -> bytes)
  files,         \* the files/ directories on disk: path -> inode and bytes
  now,           \* the last value Date.now() gave to generateFilePath
  jobs,          \* completeUpload calls in progress
  nextJob,       \* the number of the next completeUpload call that assembles
  inflight,      \* chunk requests whose bytes are on their way to the disk
  putsLeft,      \* chunk writes still to come
  response,      \* what the last upload request was answered
  serial,        \* whether the client waits for each answer before its next request
  returned,      \* the fileInfo objects completeUpload calls have returned, by call
  uploader,      \* the browser's ChunkedUploader object and where its upload() stands
  download,      \* the last GET /downloads request and its answer
  trees,         \* the session directories that exist under the storage root
  singles,       \* POST /api/upload requests whose file multer has stored
  maxActiveSessionsEnv  \* parseInt(process.env.MAX_ACTIVE_SESSIONS)

vars == <<sessions, sessionOrder, sessionLocks, nextToken, deleting,
          orphanTimers, sweep, socketState, rooms, inbox, pending, recording,
          budget, uploadInfo, uploads, nextUpload, chunkDirs, files, now, jobs,
          nextJob, inflight, putsLeft, response, serial, uploader, returned,
          download, trees, singles, maxActiveSessionsEnv>>

sessionVars == <<sessions, sessionOrder, sessionLocks, nextToken, deleting,
                 orphanTimers, sweep>>
socketVars == <<socketState, rooms, inbox, pending, recording, budget>>
uploadVars == <<uploadInfo, uploads, nextUpload, chunkDirs, files, now, jobs,
                nextJob, inflight, putsLeft, response, serial, uploader,
                returned>>
storeVars == <<uploadVars, download>>
quotaVars == <<singles, maxActiveSessionsEnv>>

----------------------------------------------------------------------------
(***************************************************************************)
(* Helpers on sequences and maps.                                          *)
(***************************************************************************)
IsPrefix(s, t) == Len(s) <= Len(t) /\ SubSeq(t, 1, Len(s)) = s

RemoveKey(f, k) == [x \in DOMAIN f \ {k} |-> f[x]]

RECURSIVE SeqWithout(_, _)
SeqWithout(s, x) ==
  IF s = <<>> THEN <<>>
  ELSE IF Head(s) = x THEN SeqWithout(Tail(s), x)
  ELSE <<Head(s)>> \o SeqWithout(Tail(s), x)

RECURSIVE SelectSeqIn(_, _)
SelectSeqIn(s, S) ==
  IF s = <<>> THEN <<>>
  ELSE IF Head(s) \in S THEN <<Head(s)>> \o SelectSeqIn(Tail(s), S)
  ELSE SelectSeqIn(Tail(s), S)

Min(S) == CHOOSE x \in S : \A y \in S : x <= y

Max(S) == CHOOSE x \in S : \A y \in S : x >= y

----------------------------------------------------------------------------
(***************************************************************************)
(* SessionManager                                                          *)
(***************************************************************************)
EmptyMap == [x \in {} |-> 0]

NullTimer == [set |-> FALSE, armed |-> FALSE, delay |-> 0]

\* no cleanupExpiredSessions call is in progress
NoSweep == [active |-> FALSE, queue |-> <<>>, orphans |-> FALSE, live |-> {}]

\* cleanupExpiredSessions, lines 379-380: the expired sessions are deleted; the
\* keys of the registry are taken, and cleanupInactiveSessions awaited
OrphanSweep(regs) ==
  [active |-> TRUE, queue |-> <<>>, orphans |-> TRUE, live |-> DOMAIN regs]

NewSession ==
  [clients |-> EmptyMap, history |-> <<>>, cleanupTimer |-> NullTimer,
   hasActivity |-> FALSE, totalStorageUsed |-> 0]

\* [...session.clients.values()].filter(c => c.isConnected)
ConnectedClients(session) ==
  {t \in DOMAIN session.clients : session.clients[t].isConnected}

\* clearTimeout(session.cleanupTimer); session.cleanupTimer = null
CancelTimer(session) == [session EXCEPT !.cleanupTimer = NullTimer]

\* clearTimeout(session.cleanupTimer) alone: the field keeps the stale handle
ClearTimeout(session) == [session EXCEPT !.cleanupTimer.armed = FALSE]


\* createSession, line 24: parseInt(process.env.MAX_ACTIVE_SESSIONS) || 5
MaxSessions ==
  IF maxActiveSessionsEnv = 0 THEN DefaultMaxSessions ELSE maxActiveSessionsEnv

\* createSession, line 27: the limit test
AtSessionLimit ==
  MaxSessions # -1 /\ Cardinality(DOMAIN sessions) >= MaxSessions

\* SessionManager.createSession and GET /api/code: the answer, and the registry
\* with the new session under a code no live session has
CreateSessionResult(matchCode) ==
  IF AtSessionLimit
  THEN [status |-> 429, sessions |-> sessions, sessionOrder |-> sessionOrder,
        trees |-> trees]
  ELSE [status |-> 200, sessions |-> (matchCode :> NewSession) @@ sessions,
        sessionOrder |-> Append(sessionOrder, matchCode),
        trees |-> trees \cup {matchCode}]

\* SessionFull with > in the place of >=
SessionFullAboveTwo(session) == Cardinality(ConnectedClients(session)) > 2

\* joinSession, lines 112-119: the session counts as full by its connected clients
SessionFull(session) == Cardinality(ConnectedClients(session)) >= 2

\* Reconnect without line 97: the slot keeps the socket it was bound to
ReconnectStaleSocket(session, clientToken, socketId) ==
  CancelTimer([session EXCEPT !.clients[clientToken].isConnected = TRUE])

\* joinSession, lines 92-110: the reconnect branch
Reconnect(session, clientToken, socketId) ==
  CancelTimer([session EXCEPT
     !.clients[clientToken] = [socketId |-> socketId, isConnected |-> TRUE]])

\* AddClient that counts the join as activity
AddClientMarkingActivity(session, newClientToken, socketId) ==
  CancelTimer([session EXCEPT
     !.clients = (newClientToken :> [socketId |-> socketId, isConnected |-> TRUE]) @@ @,
     !.hasActivity = TRUE])

\* joinSession, lines 121-138: a new client slot under a minted token
AddClient(session, newClientToken, socketId) ==
  CancelTimer([session EXCEPT
     !.clients = (newClientToken :> [socketId |-> socketId, isConnected |-> TRUE]) @@ @])

JoinError(error) ==
  [status |-> "error", error |-> error, clientToken |-> NoToken,
   sessions |-> sessions, nextToken |-> nextToken]

\* Released by a release at the end of the function's body instead of in a
\* finally block: the early returns keep the lock
ReleasedAtEnd(locks, matchCode, exit) ==
  IF exit \in {"InvalidCode", "SessionFull"} THEN locks ELSE locks \ {matchCode}

\* joinSession, lines 138-141, and handleDisconnect, lines 192-195: the finally
\* block, entered from the exit named
Released(locks, matchCode, exit) == locks \ {matchCode}

\* joinSession, lines 78-84 and 138-141: sessionLocks when the call that gave
\* res has returned
JoinSessionLocks(matchCode, res) ==
  IF matchCode \in sessionLocks THEN sessionLocks
  ELSE Released(sessionLocks \cup {matchCode}, matchCode,
                IF res.status = "error" THEN res.error ELSE res.status)

\* joinSession that opens a session under a code the registry does not hold
JoinSessionCreating(matchCode, clientToken, socketId) ==
  IF matchCode \in sessionLocks THEN JoinError("Locked")
  ELSE LET session == IF matchCode \in DOMAIN sessions THEN sessions[matchCode]
                      ELSE NewSession
       IN
    IF clientToken # NoToken /\ clientToken \in DOMAIN session.clients
    THEN [status |-> "reconnected", error |-> "", clientToken |-> clientToken,
          sessions |-> (matchCode :> Reconnect(session, clientToken, socketId))
                          @@ sessions,
          nextToken |-> nextToken]
    ELSE IF SessionFull(session) THEN JoinError("SessionFull")
    ELSE [status |-> "joined", error |-> "", clientToken |-> nextToken,
          sessions |-> (matchCode :> AddClient(session, nextToken, socketId))
                          @@ sessions,
          nextToken |-> nextToken + 1]

\* SessionManager.joinSession.  The function holds no await, so it runs from the
\* lock test to the finally block in one segment: the lock it adds is released
\* before any other handler can see it.
JoinSession(matchCode, clientToken, socketId) ==
  IF matchCode \in sessionLocks THEN JoinError("Locked")
  ELSE IF matchCode \notin DOMAIN sessions THEN JoinError("InvalidCode")
  ELSE LET session == sessions[matchCode] IN
    IF clientToken # NoToken /\ clientToken \in DOMAIN session.clients
    THEN [status |-> "reconnected", error |-> "", clientToken |-> clientToken,
          sessions |-> [sessions EXCEPT
                          ![matchCode] = Reconnect(session, clientToken, socketId)],
          nextToken |-> nextToken]
    ELSE IF SessionFull(session) THEN JoinError("SessionFull")
    ELSE [status |-> "joined", error |-> "", clientToken |-> nextToken,
          sessions |-> [sessions EXCEPT
                          ![matchCode] = AddClient(session, nextToken, socketId)],
          nextToken |-> nextToken + 1]

\* startSessionCleanupTimer with one delay for every session
StartSessionCleanupTimerFlat(session) ==
  IF ConnectedClients(session) # {} THEN session
  ELSE [session EXCEPT !.cleanupTimer =
          [set |-> TRUE, armed |-> TRUE, delay |-> DISCONNECT_GRACE_PERIOD]]

\* SessionManager.startSessionCleanupTimer
StartSessionCleanupTimer(session) ==
  IF ConnectedClients(session) # {} THEN session
  ELSE [session EXCEPT !.cleanupTimer =
          [set |-> TRUE, armed |-> TRUE,
           delay |-> IF session.hasActivity THEN DISCONNECT_GRACE_PERIOD
                     ELSE UNUSED_SESSION_CLEANUP_PERIOD]]

\* handleDisconnect, lines 151-158: the first session, in Map order, one of whose
\* clients is bound to socketId, and the first such client of it
SessionsOf(socketId) ==
  {c \in DOMAIN sessions :
     \E t \in DOMAIN sessions[c].clients : sessions[c].clients[t].socketId = socketId}

FirstSessionOf(socketId) ==
  Head(SelectSeqIn(sessionOrder, SessionsOf(socketId)))

FirstTokenOf(session, socketId) ==
  Min({t \in DOMAIN session.clients : session.clients[t].socketId = socketId})

\* handleDisconnect, lines 188-190: connectedClients.find(c => c.socketId !== socketId)
OtherClientSocketId(session, socketId) ==
  LET others == {t \in ConnectedClients(session) :
                    session.clients[t].socketId # socketId}
  IN IF others = {} THEN NoSocket ELSE session.clients[Min(others)].socketId

\* handleDisconnect, lines 171-190, on the session and client found
MarkDisconnected(session, token) ==
  StartSessionCleanupTimer([session EXCEPT !.clients[token].isConnected = FALSE])

\* SessionManager.handleDisconnect
HandleDisconnect(socketId) ==
  IF SessionsOf(socketId) = {} THEN [sessions |-> sessions, other |-> NoSocket]
  ELSE LET matchCode == FirstSessionOf(socketId)
           session == sessions[matchCode]
           token == FirstTokenOf(session, socketId)
           after == MarkDisconnected(session, token)
       IN IF matchCode \in sessionLocks
          THEN [sessions |-> sessions, other |-> NoSocket]
          ELSE [sessions |-> [sessions EXCEPT ![matchCode] = after],
                other |-> OtherClientSocketId(after, socketId)]

\* handleDisconnect, lines 162-169 and 192-195: sessionLocks when the call has
\* returned
HandleDisconnectLocks(socketId) ==
  IF SessionsOf(socketId) = {} \/ FirstSessionOf(socketId) \in sessionLocks
  THEN sessionLocks
  ELSE Released(sessionLocks \cup {FirstSessionOf(socketId)},
                FirstSessionOf(socketId), "disconnected")

\* data.message of a sendMessage request that carries none
Undefined == [undefined |-> TRUE]

\* { ...a, ...b }: the fields of both objects, those of b over those of a
Spread(a, b) ==
  [k \in DOMAIN a \cup DOMAIN b |-> IF k \in DOMAIN b THEN b[k] ELSE a[k]]

\* FullMessage with the client's fields spread over the server's
FullMessageClientLast(clientToken, message) ==
  Spread([sender |-> clientToken, timestamp |-> now], message)

\* addMessageToHistory, lines 262-266: timestamp is the server's Date.now()
FullMessage(clientToken, message) ==
  Spread(message, [sender |-> clientToken, timestamp |-> now])

\* PushHistory with unshift in the place of push
PushHistoryFront(history, fullMessage) == <<fullMessage>> \o history

\* addMessageToHistory, line 268: session.history.push(fullMessage)
PushHistory(history, fullMessage) == Append(history, fullMessage)

\* MessageRefused without the test of isConnected
MessageRefusedMembersOnly(matchCode, clientToken) ==
  \/ matchCode \notin DOMAIN sessions
  \/ clientToken \notin DOMAIN sessions[matchCode].clients

\* addMessageToHistory, lines 250-260: the message is refused
MessageRefused(matchCode, clientToken) ==
  \/ matchCode \notin DOMAIN sessions
  \/ clientToken \notin DOMAIN sessions[matchCode].clients
  \/ ~sessions[matchCode].clients[clientToken].isConnected

\* AddMessage with the history assigned in the place of pushed to
AddMessageAssigning(session, clientToken, message) ==
  CancelTimer([session EXCEPT
     !.history = <<FullMessage(clientToken, message)>>,
     !.hasActivity = TRUE])

\* addMessageToHistory, lines 262-279, on the session found
AddMessage(session, clientToken, message) ==
  CancelTimer([session EXCEPT
     !.history = PushHistory(@, FullMessage(clientToken, message)),
     !.hasActivity = TRUE])


\* fs.rm(sessionDir, {recursive: true}): the files left outside the trees of codes
FilesOutside(fs, codes) ==
  [p \in {q \in DOMAIN fs : q.sessionId \notin codes} |-> fs[p]]

\* the same for the temp directories, which lie under <sessionDir>/chunks
ChunkDirsOutside(dirs, codes) ==
  [u \in {v \in DOMAIN dirs : uploadInfo[v].sessionId \notin codes} |-> dirs[u]]

\* SessionManager.updateSessionStorageUsage
UpdateSessionStorageUsage(regs, sessionId, additionalSize) ==
  IF sessionId \notin DOMAIN regs THEN regs
  ELSE [regs EXCEPT ![sessionId] =
          CancelTimer([@ EXCEPT !.totalStorageUsed = @ + additionalSize,
                                !.hasActivity = TRUE])]

\* deleteSession, lines 287-303: up to the await of the storage-tree removal
DeleteSessionBegin(regs, matchCode) ==
  IF matchCode \notin DOMAIN regs THEN regs
  ELSE [regs EXCEPT ![matchCode] = ClearTimeout(@)]

\* SweepCandidate that passes over the sessions no client ever joined
SweepCandidateJoined(session) ==
  /\ ConnectedClients(session) = {}
  /\ ~session.cleanupTimer.set
  /\ session.clients # EmptyMap

\* cleanupExpiredSessions, lines 339-365: a session the sweeper may mark expired.
\* Elapsed time is not modelled: any session that passes the two tests may have
\* outlived its grace period.
SweepCandidate(session) ==
  /\ ConnectedClients(session) = {}
  /\ ~session.cleanupTimer.set

----------------------------------------------------------------------------
(***************************************************************************)
(* socket.io                                                               *)
(***************************************************************************)
\* RoomOf had joinRoom put the socket in the room before its await
RoomOfEager(matchCode) ==
  {s \in Sockets : matchCode \in rooms[s]} \cup
  {pending[i].socket : i \in {j \in DOMAIN pending :
      pending[j].kind = "joinRoom" /\ pending[j].status # "error"
      /\ pending[j].code = matchCode}}

\* the sockets a room broadcast reaches: io.to(matchCode)
RoomOf(matchCode) == {s \in Sockets : matchCode \in rooms[s]}

\* emit ev to the open sockets among targets
Emit(inb, targets, ev) ==
  [s \in Sockets |->
     IF recording /\ s \in targets /\ socketState[s] = "open"
     THEN Append(inb[s], ev) ELSE inb[s]]

Event(type, code, clientToken, history, message) ==
  [type |-> type, code |-> code, clientToken |-> clientToken,
   history |-> history, message |-> message, error |-> ""]

NoMsg == [content |-> NoMessage, sender |-> NoToken]

\* socket.emit('error', ...) of joinRoom
ErrorEvent == Event("error", NoCode, NoToken, <<>>, NoMsg)
\* socket.emit('error', ...) of sendMessage, line 553: a field is missing
InvalidMessageEvent == [ErrorEvent EXCEPT !.error = "invalid message request"]
\* socket.emit('error', ...) of sendMessage, line 561: addMessageToHistory gave null
MessageFailedEvent == [ErrorEvent EXCEPT !.error = "message failed"]
SessionJoinedEvent(code, clientToken, history) ==
  Event("sessionJoined", code, clientToken, history, NoMsg)
ReceiveMessageEvent(code, fullMessage) ==
  Event("receiveMessage", code, NoToken, <<>>, fullMessage)
UserConnectedEvent(code) == Event("userConnected", code, NoToken, <<>>, NoMsg)
UserDisconnectedEvent == Event("userDisconnected", NoCode, NoToken, <<>>, NoMsg)

----------------------------------------------------------------------------
\* one more client request is admitted
Admit ==
  /\ recording => budget > 0
  /\ budget' = IF recording THEN budget - 1 ELSE budget
  /\ UNCHANGED recording

InitState ==
  /\ sessions = EmptyMap
  /\ sessionOrder = <<>>
  /\ sessionLocks = {}
  /\ nextToken = 1
  /\ deleting = {}
  /\ orphanTimers = {}
  /\ sweep = NoSweep
  /\ socketState = [s \in Sockets |-> "new"]
  /\ rooms = [s \in Sockets |-> {}]
  /\ inbox = [s \in Sockets |-> <<>>]
  /\ pending = <<>>
  /\ budget = MaxRequests

NoProgress ==
  [totalChunks |-> 0, receivedChunks |-> 0, progress |-> 0, missingChunks |-> {}]

NoPath == [sessionId |-> NoCode, timestamp |-> 0]

NoResponse ==
  [status |-> 0, error |-> "", progress |-> NoProgress, path |-> NoPath,
   currentUsage |-> 0, limit |-> 0]

NoDownload == [sessionId |-> <<>>, filename |-> <<>>, status |-> 0, sent |-> <<>>]

\* new ChunkedUploadManager(...), and an empty data directory
\* new ChunkedUploader(), chunkedUpload.js lines 8-31; pc names the await
\* upload() stands at, requests and waits record what it has sent and waited
NewUploader ==
  [pc |-> "idle", isUploading |-> FALSE, uploadId |-> NoUpload, chunks |-> 0,
   retryCount |-> <<>>, uploadedChunks |-> {}, failedChunks |-> <<>>,
   currentIndex |-> 0, sending |-> {}, failedChunkIndexes |-> <<>>,
   requests |-> <<>>, waits |-> <<>>, completeCalled |-> FALSE, error |-> ""]

InitStoreWith(puts) ==
  /\ uploadInfo = EmptyMap
  /\ uploads = {}
  /\ nextUpload = 1
  /\ chunkDirs = EmptyMap
  /\ files = EmptyMap
  /\ now = 0
  /\ jobs = EmptyMap
  /\ nextJob = 1
  /\ inflight = {}
  /\ putsLeft = puts
  /\ response = NoResponse
  /\ returned = {}
  /\ uploader = NewUploader
  /\ download = NoDownload
  /\ trees = {}
  /\ singles = {}

InitStore == InitStoreWith(MaxPuts)

\* the server is started with MAX_ACTIVE_SESSIONS at MaxActiveSessions
InitConfig == maxActiveSessionsEnv = MaxActiveSessions

Init == InitState /\ InitStore /\ InitConfig /\ recording = FALSE /\ serial = FALSE

InitRecording ==
  InitState /\ InitStore /\ InitConfig /\ recording = TRUE /\ serial = FALSE

\* io.on('connection'): socket.io hands out the socket ids
Connect(s) ==
  /\ socketState[s] = "new"
  /\ \A x \in Sockets : x < s => socketState[x] # "new"
  /\ socketState' = [socketState EXCEPT ![s] = "open"]
  /\ UNCHANGED sessionVars
  /\ UNCHANGED <<rooms, inbox, pending, recording, budget>>
  /\ UNCHANGED <<storeVars, trees, quotaVars>>

\* CodeTaken of a createSession that draws a code once, without the loop
CodeTakenNever(matchCode) == FALSE

\* createSession, lines 34-37: while (this.sessions.has(matchCode)); the loop
\* ends with the first code drawn that is not taken
CodeTaken(matchCode) == matchCode \in DOMAIN sessions

\* GET /api/code -> SessionManager.createSession
CreateSession(matchCode) ==
  /\ ~CodeTaken(matchCode)
  /\ LET res == CreateSessionResult(matchCode) IN
       /\ sessions' = res.sessions
       /\ sessionOrder' = res.sessionOrder
       /\ trees' = res.trees
  /\ UNCHANGED <<sessionLocks, nextToken, deleting, orphanTimers, sweep>>
  /\ UNCHANGED socketVars
  /\ UNCHANGED <<storeVars, quotaVars>>

\* the number of connected clients of the session under matchCode
ConnectedCount(matchCode) ==
  IF matchCode \in DOMAIN sessions
  THEN Cardinality(ConnectedClients(sessions[matchCode])) ELSE 0

\* socket.on('joinRoom'), lines 519-526: up to the await of joinSession's result.
\* connectedBefore is not state of the program: it records the number of
\* connected clients the session had when the request came.
JoinRoom(s, code, clientToken) ==
  /\ socketState[s] = "open"
  /\ Admit
  /\ Len(pending) < MaxPending
  /\ IF code = NoCode
     THEN /\ inbox' = Emit(inbox, {s}, ErrorEvent)
          /\ UNCHANGED <<sessions, sessionLocks, nextToken, pending>>
     ELSE LET res == JoinSession(code, clientToken, s) IN
          /\ res.status = "joined" => nextToken <= MaxTokens
          /\ sessions' = res.sessions
          /\ sessionLocks' = JoinSessionLocks(code, res)
          /\ nextToken' = res.nextToken
          /\ pending' = Append(pending,
                [kind |-> "joinRoom", socket |-> s, status |-> res.status,
                 code |-> code, clientToken |-> res.clientToken,
                 other |-> NoSocket, frozen |-> FALSE, session |-> NewSession,
                 connectedBefore |-> ConnectedCount(code)])
          /\ UNCHANGED inbox
  /\ UNCHANGED <<sessionOrder, deleting, orphanTimers, sweep>>
  /\ UNCHANGED <<socketState, rooms>>
  /\ UNCHANGED <<storeVars, trees, quotaVars>>

\* the session object a joinRoom continuation holds in result.session
ResultSession(p) == IF p.frozen THEN p.session ELSE sessions[p.code]

\* socket.on('joinRoom'), lines 528-543: after the await
JoinRoomResume ==
  /\ pending # <<>>
  /\ Head(pending).kind = "joinRoom"
  /\ LET p == Head(pending)
         s == p.socket
     IN IF p.status = "error"
        THEN /\ inbox' = Emit(inbox, {s}, ErrorEvent)
             /\ UNCHANGED rooms
        ELSE LET session == ResultSession(p)
                 joined == IF socketState[s] = "open"
                           THEN [rooms EXCEPT ![s] = @ \cup {p.code}] ELSE rooms
                 members == {x \in Sockets : p.code \in joined[x]}
                 first == Emit(inbox, {s},
                            SessionJoinedEvent(p.code, p.clientToken, session.history))
             IN /\ rooms' = joined
                /\ inbox' = IF Cardinality(ConnectedClients(session)) = 2
                            THEN Emit(first, members, UserConnectedEvent(p.code))
                            ELSE first
  /\ pending' = Tail(pending)
  /\ UNCHANGED sessionVars
  /\ UNCHANGED <<socketState, recording, budget>>
  /\ UNCHANGED <<storeVars, trees, quotaVars>>

\* socket.on('sendMessage')
SendMessage(s, matchCode, clientToken, message) ==
  /\ socketState[s] = "open"
  /\ Admit
  /\ IF matchCode = NoCode \/ clientToken = NoToken \/ message = Undefined
     THEN /\ inbox' = Emit(inbox, {s}, InvalidMessageEvent)
          /\ UNCHANGED sessions
     ELSE IF MessageRefused(matchCode, clientToken)
     THEN /\ inbox' = Emit(inbox, {s}, MessageFailedEvent)
          /\ UNCHANGED sessions
     ELSE /\ Len(sessions[matchCode].history) < MaxHistory
          /\ sessions' = [sessions EXCEPT
                            ![matchCode] = AddMessage(@, clientToken, message)]
          /\ inbox' = Emit(inbox, RoomOf(matchCode),
                           ReceiveMessageEvent(matchCode, FullMessage(clientToken, message)))
  /\ UNCHANGED <<sessionOrder, sessionLocks, nextToken, deleting, orphanTimers, sweep>>
  /\ UNCHANGED <<socketState, rooms, pending>>
  /\ UNCHANGED <<storeVars, trees, quotaVars>>

\* socket.on('disconnect'), lines 565-567: the socket has left its rooms;
\* handleDisconnect runs up to the await of its result
Disconnect(s) ==
  /\ socketState[s] = "open"
  /\ Len(pending) < MaxPending
  /\ socketState' = [socketState EXCEPT ![s] = "closed"]
  /\ rooms' = [rooms EXCEPT ![s] = {}]
  /\ sessionLocks' = HandleDisconnectLocks(s)
  /\ LET res == HandleDisconnect(s) IN
       /\ sessions' = res.sessions
       /\ pending' = Append(pending,
             [kind |-> "disconnect", socket |-> s, status |-> "",
              code |-> NoCode, clientToken |-> NoToken,
              other |-> res.other, frozen |-> FALSE, session |-> NewSession,
              connectedBefore |-> 0])
  /\ UNCHANGED <<sessionOrder, nextToken, deleting, orphanTimers, sweep>>
  /\ UNCHANGED <<inbox, recording, budget>>
  /\ UNCHANGED <<storeVars, trees, quotaVars>>

\* socket.on('disconnect'), lines 568-571: after the await
DisconnectResume ==
  /\ pending # <<>>
  /\ Head(pending).kind = "disconnect"
  /\ inbox' = IF Head(pending).other # NoSocket
              THEN Emit(inbox, {Head(pending).other}, UserDisconnectedEvent)
              ELSE inbox
  /\ pending' = Tail(pending)
  /\ UNCHANGED sessionVars
  /\ UNCHANGED <<socketState, rooms, recording, budget>>
  /\ UNCHANGED <<storeVars, trees, quotaVars>>

\* the callback of startSessionCleanupTimer, lines 229-240, of a registered session
TimerFire(matchCode) ==
  /\ matchCode \in DOMAIN sessions
  /\ sessions[matchCode].cleanupTimer.armed
  /\ IF ConnectedClients(sessions[matchCode]) # {}
     THEN /\ sessions' = [sessions EXCEPT ![matchCode] = CancelTimer(@)]
          /\ UNCHANGED deleting
     ELSE /\ sessions' = DeleteSessionBegin(sessions, matchCode)
          /\ deleting' = deleting \cup {[code |-> matchCode, by |-> "timer"]}
  /\ UNCHANGED <<sessionOrder, sessionLocks, nextToken, orphanTimers, sweep>>
  /\ UNCHANGED socketVars
  /\ UNCHANGED <<storeVars, trees, quotaVars>>

\* the same callback of a session object that was removed from the registry with
\* its timer armed: deleteSession looks the code up again
OrphanTimerFire(matchCode) ==
  /\ matchCode \in orphanTimers
  /\ orphanTimers' = orphanTimers \ {matchCode}
  /\ sessions' = DeleteSessionBegin(sessions, matchCode)
  /\ deleting' = IF matchCode \in DOMAIN sessions
                 THEN deleting \cup {[code |-> matchCode, by |-> "timer"]}
                 ELSE deleting
  /\ UNCHANGED <<sessionOrder, sessionLocks, nextToken, sweep>>
  /\ UNCHANGED socketVars
  /\ UNCHANGED <<storeVars, trees, quotaVars>>

\* cleanupExpiredSessions, line 369-372: the codes of queue from the first one
\* that deleteSession still finds (a call on a missing code returns at once)
RECURSIVE SkipMissing(_, _)
SkipMissing(queue, regs) ==
  IF queue = <<>> THEN <<>>
  ELSE IF Head(queue) \in DOMAIN regs THEN queue
  ELSE SkipMissing(Tail(queue), regs)

\* cleanupExpiredSessions, lines 320-371: the scan, and the first deleteSession
\* up to its await
SweepStart(expired) ==
  /\ ~sweep.active
  /\ \A c \in expired : c \in DOMAIN sessions /\ SweepCandidate(sessions[c])
  /\ LET queue == SelectSeqIn(sessionOrder, expired) IN
       IF queue = <<>>
       THEN /\ sweep' = OrphanSweep(sessions)
            /\ UNCHANGED <<sessions, deleting>>
       ELSE /\ sweep' = [NoSweep EXCEPT !.active = TRUE, !.queue = queue]
            /\ sessions' = DeleteSessionBegin(sessions, Head(queue))
            /\ deleting' = deleting \cup {[code |-> Head(queue), by |-> "sweep"]}
  /\ UNCHANGED <<sessionOrder, sessionLocks, nextToken, orphanTimers>>
  /\ UNCHANGED socketVars
  /\ UNCHANGED <<storeVars, trees, quotaVars>>

\* deleteSession, lines 305-307, after the await: this.sessions.delete(matchCode);
\* a sweeper's call then goes on with the next expired code
DeleteSessionFinish(d) ==
  /\ d \in deleting
  /\ LET c == d.code
         live == c \in DOMAIN sessions
         regs == IF live THEN RemoveKey(sessions, c) ELSE sessions
         rest == IF d.by = "sweep" THEN SkipMissing(Tail(sweep.queue), regs)
                 ELSE <<>>
     IN /\ sessionOrder' = SeqWithout(sessionOrder, c)
        /\ orphanTimers' = IF live /\ sessions[c].cleanupTimer.armed
                           THEN orphanTimers \cup {c} ELSE orphanTimers
        /\ pending' = [i \in DOMAIN pending |->
                         IF live /\ pending[i].kind = "joinRoom" /\ pending[i].code = c
                            /\ pending[i].status # "error" /\ ~pending[i].frozen
                         THEN [pending[i] EXCEPT !.frozen = TRUE, !.session = sessions[c]]
                         ELSE pending[i]]
        /\ trees' = trees \ {c}
        /\ files' = FilesOutside(files, {c})
        /\ chunkDirs' = ChunkDirsOutside(chunkDirs, {c})
        /\ IF d.by = "sweep"
           THEN /\ sweep' = IF rest = <<>> THEN OrphanSweep(regs)
                           ELSE [sweep EXCEPT !.queue = rest]
                /\ sessions' = IF rest = <<>> THEN regs
                               ELSE DeleteSessionBegin(regs, Head(rest))
                /\ deleting' = (deleting \ {d}) \cup
                                 (IF rest = <<>> THEN {}
                                  ELSE {[code |-> Head(rest), by |-> "sweep"]})
           ELSE /\ sessions' = regs
                /\ deleting' = deleting \ {d}
                /\ UNCHANGED sweep
  /\ UNCHANGED <<sessionLocks, nextToken>>
  /\ UNCHANGED <<socketState, rooms, inbox, recording, budget>>
  /\ UNCHANGED <<uploadInfo, uploads, nextUpload, now, jobs, nextJob, inflight,
                 putsLeft, response, serial, uploader, returned, download, quotaVars>>

\* InactiveEntries without the negation of its test
InactiveEntriesIncluded(entries, activeSessions) == entries \cap activeSessions

\* cleanupInactiveSessions, lines 200-201: the directory entries whose name
\* activeSessions does not include
InactiveEntries(entries, activeSessions) == entries \ activeSessions

\* cleanupInactiveSessions: every directory under the storage root whose name
\* is not among the keys taken is removed, and the sweep has ended
CleanupInactiveSessions ==
  /\ sweep.orphans
  /\ sweep' = NoSweep
  /\ trees' = trees \ InactiveEntries(trees, sweep.live)
  /\ files' = FilesOutside(files, InactiveEntries(trees, sweep.live))
  /\ chunkDirs' = ChunkDirsOutside(chunkDirs, InactiveEntries(trees, sweep.live))
  /\ UNCHANGED <<sessions, sessionOrder, sessionLocks, nextToken, deleting,
                 orphanTimers>>
  /\ UNCHANGED socketVars
  /\ UNCHANGED <<uploadInfo, uploads, nextUpload, now, jobs, nextJob, inflight,
                 putsLeft, response, serial, uploader, returned, download, quotaVars>>

\* the clients number the messages they send to a session
NextContent(matchCode) ==
  IF matchCode \in DOMAIN sessions THEN Len(sessions[matchCode].history) + 1 ELSE 1

\* SessionPage.vue sendMessage, lines 400-405: the message object of the client,
\* with the sender and the timestamp the client gives it
ClientMessage(content, sender, timestamp) ==
  [content |-> content, sender |-> sender, timestamp |-> timestamp]

\* the message of a client that names itself and reads its own clock
TextMessage(matchCode, clientToken) ==
  ClientMessage(NextContent(matchCode), clientToken, ClientClock)

Next ==
  \/ \E s \in Sockets : Connect(s)
  \/ \E c \in Codes : CreateSession(c)
  \/ \E s \in Sockets, c \in Codes \cup {NoCode},
        t \in (1..(nextToken - 1)) \cup {NoToken, UnknownToken} : JoinRoom(s, c, t)
  \/ JoinRoomResume
  \/ \E s \in Sockets, c \in Codes,
        t \in (1..(nextToken - 1)) \cup {UnknownToken} :
        SendMessage(s, c, t, TextMessage(c, t))
  \/ \E s \in Sockets : SendMessage(s, NoCode, NoToken, Undefined)
  \/ \E s \in Sockets : Disconnect(s)
  \/ DisconnectResume
  \/ \E c \in Codes : TimerFire(c)
  \/ \E c \in Codes : OrphanTimerFire(c)
  \/ \E e \in (SUBSET Codes) \ {{}} : SweepStart(e)
  \/ \E d \in deleting : DeleteSessionFinish(d)
  \/ CleanupInactiveSessions

Spec == Init /\ [][Next]_vars

\* a message whose sender field names someone else than the caller
ForgedMessage(matchCode, sender) ==
  ClientMessage(NextContent(matchCode) + MaxHistory, sender, ClientClock)

\* the messaging scenario: clients join, send and leave while the sessions live,
\* and what each socket is sent is recorded
NextRecording ==
  \/ \E s \in Sockets : Connect(s)
  \/ \E c \in Codes : CreateSession(c)
  \/ \E s \in Sockets, c \in Codes \cup {NoCode},
        t \in (1..(nextToken - 1)) \cup {NoToken, UnknownToken} : JoinRoom(s, c, t)
  \/ JoinRoomResume
  \/ \E s \in Sockets, c \in Codes,
        t \in (1..(nextToken - 1)) \cup {UnknownToken} :
        SendMessage(s, c, t, TextMessage(c, t))
  \/ \E s \in Sockets : SendMessage(s, NoCode, NoToken, Undefined)
  \/ \E s \in Sockets : Disconnect(s)
  \/ DisconnectResume

SpecRecording == InitRecording /\ [][NextRecording]_vars

\* the sessions of the fan-out scenario
FanoutCodes == 1..NumFanoutCodes

\* the server is started with MAX_ACTIVE_SESSIONS=-1: no session limit
InitFanout ==
  /\ InitState /\ InitStore
  /\ maxActiveSessionsEnv = -1
  /\ recording = TRUE
  /\ serial = FALSE

\* the messaging scenario over two sessions; the codes are named in the order
\* generateMatchCode gives them out
NextFanout ==
  \/ \E s \in Sockets : Connect(s)
  \/ \E c \in FanoutCodes :
        (\A x \in FanoutCodes : x < c => x \in DOMAIN sessions) /\ CreateSession(c)
  \/ \E s \in Sockets, c \in FanoutCodes,
        t \in (1..(nextToken - 1)) \cup {NoToken} : JoinRoom(s, c, t)
  \/ JoinRoomResume
  \/ \E s \in Sockets, c \in FanoutCodes, t \in 1..(nextToken - 1) :
        SendMessage(s, c, t, TextMessage(c, t))
  \/ \E s \in Sockets : Disconnect(s)
  \/ DisconnectResume

SpecFanout == InitFanout /\ [][NextFanout]_vars

\* cleanupExpiredSessions, lines 326-365, run once every session that passes its
\* tests has outlived its grace period
Expired == {c \in DOMAIN sessions : SweepCandidate(sessions[c])}

SweepExpired == Expired # {} /\ SweepStart(Expired)

\* the sockets that connect while cleanup is followed
CleanupSockets == 1..NumCleanupSockets

\* the registry with the sweeper's idle runs, which find no expired session
NextCleanup ==
  \/ \E s \in CleanupSockets : Connect(s)
  \/ \E c \in Codes : CreateSession(c)
  \/ \E s \in CleanupSockets, c \in Codes,
        t \in (1..(nextToken - 1)) \cup {NoToken} : JoinRoom(s, c, t)
  \/ JoinRoomResume
  \/ \E s \in CleanupSockets, c \in Codes, t \in 1..(nextToken - 1) :
        SendMessage(s, c, t, TextMessage(c, t))
  \/ \E s \in CleanupSockets : Disconnect(s)
  \/ DisconnectResume
  \/ \E c \in Codes : TimerFire(c)
  \/ \E c \in Codes : OrphanTimerFire(c)
  \/ \E e \in SUBSET Codes : SweepStart(e)
  \/ \E d \in deleting : DeleteSessionFinish(d)
  \/ CleanupInactiveSessions

\* setTimeout fires an armed timer, the awaited removals of storage trees end,
\* and setInterval runs the sweeper every 30 s, so that a session that stays
\* without clients and without a timer is in time found expired
Fairness ==
  /\ WF_vars(\E c \in Codes : TimerFire(c))
  /\ WF_vars(\E c \in Codes : OrphanTimerFire(c))
  /\ WF_vars(\E d \in deleting : DeleteSessionFinish(d))
  /\ WF_vars(CleanupInactiveSessions)
  /\ SF_vars(SweepExpired)

SpecCleanup == Init /\ [][NextCleanup]_vars /\ Fairness

\* the values MAX_ACTIVE_SESSIONS is set to: unlimited, zero, and a limit
SessionLimits == {-1, 0, MaxActiveSessions}

\* the codes generateMatchCode draws from while the limit is followed
LimitCodes == 1..NumLimitCodes

InitLimit ==
  /\ InitState /\ InitStore
  /\ maxActiveSessionsEnv \in SessionLimits
  /\ recording = FALSE /\ serial = FALSE

\* sessions are created, joined, left and cleaned up; no message is sent
NextLimit ==
  \/ \E s \in CleanupSockets : Connect(s)
  \/ \E c \in LimitCodes : CreateSession(c)
  \/ \E s \in CleanupSockets, c \in Codes,
        t \in (1..(nextToken - 1)) \cup {NoToken} : JoinRoom(s, c, t)
  \/ JoinRoomResume
  \/ \E s \in CleanupSockets : Disconnect(s)
  \/ DisconnectResume
  \/ \E c \in LimitCodes : TimerFire(c)
  \/ \E c \in LimitCodes : OrphanTimerFire(c)
  \/ \E e \in (SUBSET LimitCodes) \ {{}} : SweepStart(e)
  \/ \E d \in deleting : DeleteSessionFinish(d)
  \/ CleanupInactiveSessions

SpecLimit == InitLimit /\ [][NextLimit]_vars


----------------------------------------------------------------------------
(***************************************************************************)
(* ChunkedUploadManager and the chunk routes of index.js.                  *)
(*                                                                         *)
(* Strings that the code takes apart (the chunkIndex field, path           *)
(* parameters) are sequences of one-character strings.  The bytes of a     *)
(* chunk or file are a sequence of numbers.  The wall-clock fields         *)
(* createdAt and lastActivityAt are read by no operation below and are     *)
(* left out.                                                               *)
(***************************************************************************)
UploadIds == 1..MaxUploads

Datas == {<<1>>, <<2>>}

FileSizes == 1..MaxFileSize

IndexChars == {"0", "1", "x"}

\* the chunkIndex field of the multipart body, as sent
RawIndexes == UNION {[1..n -> IndexChars] : n \in 1..MaxIndexLen}

Digits == <<"0", "1", "2", "3", "4", "5", "6", "7", "8", "9">>

IsDigit(c) == \E d \in DOMAIN Digits : Digits[d] = c

DigitValue(c) == (CHOOSE d \in DOMAIN Digits : Digits[d] = c) - 1

\* the digits parseInt(raw, 10) reads: the longest prefix of digits
RECURSIVE LeadingDigits(_)
LeadingDigits(raw) ==
  IF raw = <<>> \/ ~IsDigit(Head(raw)) THEN <<>>
  ELSE <<Head(raw)>> \o LeadingDigits(Tail(raw))

RECURSIVE DecimalValue(_)
DecimalValue(digits) ==
  IF digits = <<>> THEN 0
  ELSE 10 * DecimalValue(SubSeq(digits, 1, Len(digits) - 1))
       + DigitValue(digits[Len(digits)])

\* isNaN(parseInt(raw, 10))
IsNaN(raw) == LeadingDigits(raw) = <<>>

\* parseInt(raw, 10), of a raw that is not NaN
ParseInt(raw) == DecimalValue(LeadingDigits(raw))

\* `${chunkIndex}` of a number that is not negative
RECURSIVE DecimalString(_)
DecimalString(n) ==
  IF n < 10 THEN <<Digits[n + 1]>>
  ELSE DecimalString(n \div 10) \o <<Digits[(n % 10) + 1]>>

\* initializeUpload, lines 29-41: the uploadInfo object.  order is the
\* insertion order of the keys of the chunkPaths Map.
NewUpload(sessionId, fileSize, totalChunks) ==
  [sessionId |-> sessionId, fileSize |-> fileSize, totalChunks |-> totalChunks,
   receivedChunks |-> {}, chunkPaths |-> EmptyMap, order |-> <<>>]

\* receivedChunks.add(chunkIndex); chunkPaths.set(chunkIndex, chunkPath)
MarkReceived(info, chunkIndex, chunkPath) ==
  [info EXCEPT
     !.receivedChunks = @ \cup {chunkIndex},
     !.chunkPaths = (chunkIndex :> chunkPath) @@ @,
     !.order = IF chunkIndex \in DOMAIN info.chunkPaths THEN @
               ELSE Append(@, chunkIndex)]

\* Math.round((size / totalChunks) * 100)
Percent(size, totalChunks) == (200 * size + totalChunks) \div (2 * totalChunks)

\* ChunkedUploadManager.getUploadProgress, of a registered upload
GetUploadProgress(info) ==
  [totalChunks |-> info.totalChunks,
   receivedChunks |-> Cardinality(info.receivedChunks),
   progress |-> Percent(Cardinality(info.receivedChunks), info.totalChunks),
   missingChunks |-> {i \in 0..(info.totalChunks - 1) : i \notin info.receivedChunks}]

Answer(status, error) ==
  [status |-> status, error |-> error, progress |-> NoProgress, path |-> NoPath,
   currentUsage |-> 0, limit |-> 0]

\* HasUpload of a Map that keeps the records of the uploads that ended
HasUploadEver(u) == u \in DOMAIN uploadInfo

\* this.uploads.get(uploadId) finds a record
HasUpload(u) == u \in uploads

\* a write of data at byte offset off of a file that holds bytes
WriteAt(bytes, off, data) ==
  [k \in 1..Max({Len(bytes), off + Len(data)}) |->
     IF k > off /\ k <= off + Len(data) THEN data[k - off]
     ELSE IF k <= Len(bytes) THEN bytes[k] ELSE 0]

\* completeUpload with the chunks taken in the order the Map received them
ChunkPathArrival(info, i) == info.chunkPaths[info.order[i + 1]]

\* completeUpload, line 113: uploadInfo.chunkPaths.get(i)
ChunkPathAt(info, i) == info.chunkPaths[i]

\* completeUpload, line 114: if (!chunkPath)
HasChunkPath(info, i) == i \in DOMAIN info.chunkPaths

\* Rollback whose catch block skips cleanupUpload
RollbackKeepingChunks(job) ==
  [job EXCEPT !.phase = "rollback", !.cleanup = FALSE]

\* completeUpload, lines 151-153: the catch block is entered; cleanupUpload
\* removes the temp directory only of an upload the Map still holds
Rollback(job) ==
  [job EXCEPT !.phase = "rollback", !.cleanup = job.upload \in uploads]

\* the sum of the lengths of the byte sequences f holds
RECURSIVE TotalSize(_)
TotalSize(f) ==
  IF DOMAIN f = {} THEN 0
  ELSE LET k == CHOOSE x \in DOMAIN f : TRUE
       IN Len(f[k]) + TotalSize(RemoveKey(f, k))

RECURSIVE SumOver(_, _)
SumOver(f, keys) ==
  IF keys = {} THEN 0
  ELSE LET k == CHOOSE x \in keys : TRUE IN f[k] + SumOver(f, keys \ {k})

\* FileStorageManager.getSessionStorageUsage: totalSize, the bytes of every file
\* under the session directory, files/ and chunks/ alike
GetSessionStorageUsage(sessionId) ==
  IF sessionId \notin trees THEN 0
  ELSE LET stored == {p \in DOMAIN files : p.sessionId = sessionId}
           temps == {u \in DOMAIN chunkDirs : uploadInfo[u].sessionId = sessionId}
       IN SumOver([p \in stored |-> Len(files[p].bytes)], stored)
          + SumOver([u \in temps |-> TotalSize(chunkDirs[u])], temps)

\* checkStorageQuota, line 391: parseInt(process.env.MAX_SESSION_STORAGE_BYTES)
\* || 1073741824, with the variable set to MaxSessionStorageBytes
StorageLimit == MaxSessionStorageBytes

\* CheckStorageQuota that leaves additionalSize out of the sum
CheckStorageQuotaOfUsage(sessionId, additionalSize) ==
  IF StorageLimit = -1
  THEN [allowed |-> TRUE, currentUsage |-> 0, limit |-> -1]
  ELSE LET totalSize == GetSessionStorageUsage(sessionId) IN
       [allowed |-> ~(totalSize > StorageLimit),
        currentUsage |-> totalSize, limit |-> StorageLimit]

\* SessionManager.checkStorageQuota
CheckStorageQuota(sessionId, additionalSize) ==
  IF StorageLimit = -1
  THEN [allowed |-> TRUE, currentUsage |-> 0, limit |-> -1]
  ELSE LET totalSize == GetSessionStorageUsage(sessionId) IN
       [allowed |-> ~(totalSize + additionalSize > StorageLimit),
        currentUsage |-> totalSize, limit |-> StorageLimit]

\* the paths of the files under <sessionDir>/files
FilesOf(fs, sessionId) == {p \in DOMAIN fs : p.sessionId = sessionId}

\* the 413 answer of the two routes that check the quota
QuotaExceeded(quotaCheck) ==
  [Answer(413, "Storage quota exceeded") EXCEPT
     !.currentUsage = quotaCheck.currentUsage, !.limit = quotaCheck.limit]

\* POST /api/upload/init: the quota check, then
\* ChunkedUploadManager.initializeUpload
InitializeUploadWithin(limit, sessionId, fileSize, totalChunks) ==
  /\ nextUpload <= limit
  /\ LET quotaCheck == CheckStorageQuota(sessionId, fileSize) IN
     IF ~quotaCheck.allowed
     THEN /\ response' = QuotaExceeded(quotaCheck)
          /\ UNCHANGED <<uploadInfo, uploads, chunkDirs, nextUpload, trees>>
     ELSE /\ uploadInfo' = (nextUpload :> NewUpload(sessionId, fileSize, totalChunks))
                             @@ uploadInfo
          /\ uploads' = uploads \cup {nextUpload}
          /\ chunkDirs' = (nextUpload :> EmptyMap) @@ chunkDirs
          /\ nextUpload' = nextUpload + 1
          /\ trees' = trees \cup {sessionId}
          /\ response' = Answer(200, "")
  /\ UNCHANGED <<files, now, jobs, nextJob, inflight, putsLeft, serial, uploader, returned>>
  /\ UNCHANGED <<sessionVars, socketVars, download, quotaVars>>

\* the same, while no more than MaxUploads uploads have been opened
InitializeUpload(sessionId, fileSize, totalChunks) ==
  InitializeUploadWithin(MaxUploads, sessionId, fileSize, totalChunks)

\* the bytes of a file part of the given size
Content(size) == [k \in 1..size |-> 1]

\* the sizes of the files sent to POST /api/upload
SingleSizes == 1..MaxSingleSize

\* POST /api/upload, the multer middleware (storage, lines 190-224): destination
\* makes the directories of the session named by x-session-id, filename puts
\* Date.now() before the name, and the file part is written under files/ before
\* the route's handler runs.  A part above limits.fileSize is removed again and
\* answered 413 by handleMulterError.  usedBefore and before are not state of
\* the program: they record the bytes and the files the session held before the
\* request.  The files sent carry one original name, so two parts stored in the
\* same millisecond share a path.
UploadStore(sessionId, size) ==
  /\ putsLeft > 0
  /\ Cardinality(singles) < MaxInFlight
  /\ serial => (singles = {} /\ inflight = {} /\ jobs = EmptyMap)
  /\ putsLeft' = putsLeft - 1
  /\ trees' = trees \cup {sessionId}
  /\ \E t \in (IF now = 0 THEN {1} ELSE {now, now + 1}) :
       LET path == [sessionId |-> sessionId, timestamp |-> t]
           ino == IF path \in DOMAIN files THEN files[path].ino ELSE 0 - putsLeft
       IN /\ now' = t
          /\ IF size > StorageLimit /\ StorageLimit # -1
             THEN /\ files' = RemoveKey(files, path)
                  /\ response' = Answer(413, "File too large")
                  /\ UNCHANGED singles
             ELSE /\ files' = (path :> [ino |-> ino, bytes |-> Content(size)]) @@ files
                  /\ singles' = singles \cup
                       {[sessionId |-> sessionId, path |-> path, size |-> size,
                         usedBefore |-> GetSessionStorageUsage(sessionId),
                         before |-> FilesOf(files, sessionId)]}
                  /\ UNCHANGED response
  /\ UNCHANGED <<uploadInfo, uploads, nextUpload, chunkDirs, jobs, nextJob, inflight,
                 serial, uploader, returned>>
  /\ UNCHANGED <<sessionVars, socketVars, download, maxActiveSessionsEnv>>

\* POST /api/upload, the handler, lines 297-346: the quota check; a denied
\* file is unlinked and answered 413; an unlink that fails is caught, and the
\* handler goes on as for an allowed file: updateSessionStorageUsage and 200
UploadHandle(r) ==
  /\ r \in singles
  /\ singles' = singles \ {r}
  /\ LET quotaCheck == CheckStorageQuota(r.sessionId, r.size) IN
     IF ~quotaCheck.allowed /\ r.path \in DOMAIN files
     THEN /\ files' = RemoveKey(files, r.path)
          /\ response' = QuotaExceeded(quotaCheck)
          /\ UNCHANGED sessions
     ELSE /\ sessions' = UpdateSessionStorageUsage(sessions, r.sessionId, r.size)
          /\ response' = [Answer(200, "") EXCEPT !.path = r.path]
          /\ UNCHANGED files
  /\ UNCHANGED <<uploadInfo, uploads, nextUpload, chunkDirs, now, jobs, nextJob,
                 inflight, putsLeft, serial, uploader, returned>>
  /\ UNCHANGED <<sessionOrder, sessionLocks, nextToken, deleting, orphanTimers, sweep>>
  /\ UNCHANGED <<socketVars, download, trees, maxActiveSessionsEnv>>

\* POST /api/upload/complete, lines 431-439: after completeUpload has returned,
\* the session's usage is updated if getUploadInfo still finds the upload
RouteCompleteUpdate(regs, held, u) ==
  IF u \in held
  THEN UpdateSessionStorageUsage(regs, uploadInfo[u].sessionId, uploadInfo[u].fileSize)
  ELSE regs

\* POST /api/upload/chunk, the multer middleware (chunkStorage): the file part
\* is written to <tempDir>/chunk_<chunkIndex> before the route's handler runs
RouteChunkStore(u, raw, data) ==
  /\ serial => (jobs = EmptyMap /\ singles = {})
  /\ IF ~HasUpload(u)
     THEN /\ response' = Answer(500, "Upload not found")
          /\ UNCHANGED <<chunkDirs, inflight, putsLeft>>
     ELSE IF u \notin DOMAIN chunkDirs
     THEN /\ response' = Answer(500, "ENOENT")
          /\ UNCHANGED <<chunkDirs, inflight, putsLeft>>
     ELSE /\ putsLeft > 0
          /\ Cardinality(inflight) < MaxInFlight
          /\ putsLeft' = putsLeft - 1
          /\ chunkDirs' = [chunkDirs EXCEPT ![u] = (raw :> data) @@ @]
          /\ inflight' = inflight \cup
               {[door |-> "route", upload |-> u, raw |-> raw, index |-> 0,
                 data |-> data]}
          /\ UNCHANGED response
  /\ UNCHANGED <<uploadInfo, uploads, nextUpload, files, now, jobs, nextJob, serial, uploader, returned>>
  /\ UNCHANGED <<sessionVars, socketVars, download, trees, quotaVars>>

\* POST /api/upload/chunk, the handler, lines 387-419
RouteChunkHandle(r) ==
  /\ r \in inflight
  /\ r.door = "route"
  /\ inflight' = inflight \ {r}
  /\ IF IsNaN(r.raw)
     THEN /\ response' = Answer(400, "Invalid chunk index")
          /\ UNCHANGED uploadInfo
     ELSE IF ~HasUpload(r.upload)
     THEN /\ response' = Answer(404, "Upload not found")
          /\ UNCHANGED uploadInfo
     ELSE LET info == MarkReceived(uploadInfo[r.upload], ParseInt(r.raw), r.raw) IN
          /\ uploadInfo' = [uploadInfo EXCEPT ![r.upload] = info]
          /\ response' = [Answer(200, "") EXCEPT !.progress = GetUploadProgress(info)]
  /\ UNCHANGED <<uploads, nextUpload, chunkDirs, files, now, jobs, nextJob,
                 putsLeft, serial, uploader, returned>>
  /\ UNCHANGED <<sessionVars, socketVars, download, trees, quotaVars>>

\* ChunkedUploadManager.uploadChunk, lines 58-76: up to the await of writeFile.
\* A call that returns true is answered 200 here, one that throws 500.
UploadChunkBegin(u, chunkIndex, data) ==
  /\ serial => jobs = EmptyMap
  /\ IF ~HasUpload(u)
     THEN /\ response' = Answer(500, "Upload not found")
          /\ UNCHANGED <<inflight, putsLeft>>
     ELSE IF chunkIndex < 0 \/ chunkIndex >= uploadInfo[u].totalChunks
     THEN /\ response' = Answer(500, "Invalid chunk index")
          /\ UNCHANGED <<inflight, putsLeft>>
     ELSE IF chunkIndex \in uploadInfo[u].receivedChunks
     THEN /\ response' = Answer(200, "")
          /\ UNCHANGED <<inflight, putsLeft>>
     ELSE /\ putsLeft > 0
          /\ Cardinality(inflight) < MaxInFlight
          /\ putsLeft' = putsLeft - 1
          /\ inflight' = inflight \cup
               {[door |-> "manager", upload |-> u, raw |-> DecimalString(chunkIndex),
                 index |-> chunkIndex, data |-> data]}
          /\ UNCHANGED response
  /\ UNCHANGED <<uploadInfo, uploads, nextUpload, chunkDirs, files, now, jobs,
                 nextJob, serial, uploader, returned>>
  /\ UNCHANGED <<sessionVars, socketVars, download, trees, quotaVars>>

\* ChunkedUploadManager.uploadChunk, lines 76-85: writeFile has ended
UploadChunkFinish(r) ==
  /\ r \in inflight
  /\ r.door = "manager"
  /\ inflight' = inflight \ {r}
  /\ IF r.upload \in DOMAIN chunkDirs
     THEN /\ chunkDirs' = [chunkDirs EXCEPT ![r.upload] = (r.raw :> r.data) @@ @]
          /\ uploadInfo' = [uploadInfo EXCEPT
                              ![r.upload] = MarkReceived(@, r.index, r.raw)]
          /\ response' = Answer(200, "")
     ELSE /\ response' = Answer(500, "Failed to save chunk")
          /\ UNCHANGED <<chunkDirs, uploadInfo>>
  /\ UNCHANGED <<uploads, nextUpload, files, now, jobs, nextJob, putsLeft, serial, uploader, returned>>
  /\ UNCHANGED <<sessionVars, socketVars, download, trees, quotaVars>>

\* AllChunksReceived that is content with one chunk
SomeChunkReceived(info) == info.receivedChunks # {}

\* completeUpload, line 100: receivedChunks.size === totalChunks
AllChunksReceived(info) == Cardinality(info.receivedChunks) = info.totalChunks

\* the job a completeUpload call has become when it reaches the chunk at index
\* next of its loop, lines 112-120
AtChunk(job, info, next) ==
  IF next = info.totalChunks THEN [job EXCEPT !.i = next, !.phase = "verify"]
  ELSE IF ~HasChunkPath(info, next) THEN Rollback([job EXCEPT !.i = next])
  ELSE [job EXCEPT !.i = next, !.chunkPath = ChunkPathAt(info, next)]

\* POST /api/upload/complete -> completeUpload, lines 93-118: the tests, the
\* destination path, the write stream, and the loop up to its first readFile
CompleteBegin(u) ==
  /\ serial => (jobs = EmptyMap /\ inflight = {} /\ singles = {})
  /\ IF u = NoUpload
     THEN /\ response' = Answer(400, "Missing uploadId")
          /\ UNCHANGED <<files, now, jobs, nextJob>>
     ELSE IF ~HasUpload(u)
     THEN /\ response' = Answer(500, "Upload not found")
          /\ UNCHANGED <<files, now, jobs, nextJob>>
     ELSE IF ~AllChunksReceived(uploadInfo[u])
     THEN /\ response' = Answer(500, "Missing chunks")
          /\ UNCHANGED <<files, now, jobs, nextJob>>
     ELSE /\ nextJob <= MaxCompletes
          /\ \E t \in (IF now = 0 THEN {1} ELSE {now, now + 1}) :
               LET info == uploadInfo[u]
                   finalPath == [sessionId |-> info.sessionId, timestamp |-> t]
                   ino == IF finalPath \in DOMAIN files THEN files[finalPath].ino
                          ELSE nextJob
                   job == [upload |-> u, path |-> finalPath, ino |-> ino, i |-> 0,
                           chunkPath |-> <<>>, offset |-> 0, phase |-> "read",
                           cleanup |-> FALSE]
               IN /\ now' = t
                  /\ files' = IF info.sessionId \in trees
                              THEN (finalPath :> [ino |-> ino, bytes |-> <<>>]) @@ files
                              ELSE files
                  /\ jobs' = (nextJob :> AtChunk(job, info, 0)) @@ jobs
          /\ nextJob' = nextJob + 1
          /\ UNCHANGED response
  /\ UNCHANGED <<uploadInfo, uploads, nextUpload, chunkDirs, inflight, putsLeft, serial, uploader, returned>>
  /\ UNCHANGED <<sessionVars, socketVars, download, trees, quotaVars>>

\* completeUpload, lines 118-122: readFile of the chunk at index i has ended;
\* its bytes go to the stream, and the loop moves on
CompleteRead(j) ==
  /\ j \in DOMAIN jobs
  /\ jobs[j].phase = "read"
  /\ LET job == jobs[j]
         u == job.upload
         info == uploadInfo[u]
     IN IF u \notin DOMAIN chunkDirs \/ job.chunkPath \notin DOMAIN chunkDirs[u]
        THEN /\ jobs' = [jobs EXCEPT ![j] = Rollback(job)]
             /\ UNCHANGED files
        ELSE LET data == chunkDirs[u][job.chunkPath] IN
             /\ files' = IF job.path \in DOMAIN files /\ files[job.path].ino = job.ino
                         THEN [files EXCEPT
                                 ![job.path].bytes = WriteAt(@, job.offset, data)]
                         ELSE files
             /\ jobs' = [jobs EXCEPT ![j] =
                  AtChunk([job EXCEPT !.offset = @ + Len(data)], info, job.i + 1)]
  /\ UNCHANGED <<uploadInfo, uploads, nextUpload, chunkDirs, now, nextJob, inflight,
                 putsLeft, response, serial, uploader, returned>>
  /\ UNCHANGED <<sessionVars, socketVars, download, trees, quotaVars>>

\* completeUpload, lines 141-150: the fileInfo the call numbered j returns
FileInfo(j, job) ==
  [call |-> j, upload |-> job.upload, path |-> job.path,
   size |-> uploadInfo[job.upload].fileSize]

\* what a completeUpload call that ends well is answered: the fileInfo
Descriptor(job) == [Answer(200, "") EXCEPT !.path = job.path]

\* completeUpload, lines 125-138: the stream has finished; the size test, and
\* cleanupUpload up to its await of rmdir
CompleteVerify(j) ==
  /\ j \in DOMAIN jobs
  /\ jobs[j].phase = "verify"
  /\ LET job == jobs[j]
         info == uploadInfo[job.upload]
     IN IF job.path \notin DOMAIN files
        THEN /\ jobs' = [jobs EXCEPT ![j] = Rollback(job)]
             /\ UNCHANGED <<files, response, returned>>
        ELSE IF Len(files[job.path].bytes) # info.fileSize
        THEN /\ files' = RemoveKey(files, job.path)
             /\ jobs' = [jobs EXCEPT ![j] = Rollback(job)]
             /\ UNCHANGED <<response, returned>>
        ELSE IF job.upload \in uploads
        THEN /\ jobs' = [jobs EXCEPT ![j].phase = "cleanup"]
             /\ UNCHANGED <<files, response, returned>>
        ELSE /\ jobs' = RemoveKey(jobs, j)
             /\ response' = Descriptor(job)
             /\ returned' = returned \cup {FileInfo(j, job)}
             /\ UNCHANGED files
  /\ sessions' = IF jobs[j].phase = "verify" /\ j \notin DOMAIN jobs'
                 THEN RouteCompleteUpdate(sessions, uploads, jobs[j].upload)
                 ELSE sessions
  /\ UNCHANGED <<uploadInfo, uploads, nextUpload, chunkDirs, now, nextJob, inflight,
                 putsLeft, serial, uploader>>
  /\ UNCHANGED <<sessionOrder, sessionLocks, nextToken, deleting, orphanTimers, sweep>>
  /\ UNCHANGED <<socketVars, download, trees, quotaVars>>

\* cleanupUpload, lines 213-218, in completeUpload's line 138: the temp
\* directory is removed, the Map entry deleted, and the fileInfo returned
CompleteCleanup(j) ==
  /\ j \in DOMAIN jobs
  /\ jobs[j].phase = "cleanup"
  /\ chunkDirs' = RemoveKey(chunkDirs, jobs[j].upload)
  /\ uploads' = uploads \ {jobs[j].upload}
  /\ jobs' = RemoveKey(jobs, j)
  /\ response' = Descriptor(jobs[j])
  /\ returned' = returned \cup {FileInfo(j, jobs[j])}
  /\ sessions' = RouteCompleteUpdate(sessions, uploads', jobs[j].upload)
  /\ UNCHANGED <<uploadInfo, nextUpload, files, now, nextJob, inflight, putsLeft,
                 serial, uploader>>
  /\ UNCHANGED <<sessionOrder, sessionLocks, nextToken, deleting, orphanTimers, sweep>>
  /\ UNCHANGED <<socketVars, download, trees, quotaVars>>

\* completeUpload, lines 151-160: the catch block; cleanupUpload, the unlink of
\* the destination, and the error rethrown to the route
CompleteRollback(j) ==
  /\ j \in DOMAIN jobs
  /\ jobs[j].phase = "rollback"
  /\ chunkDirs' = IF jobs[j].cleanup THEN RemoveKey(chunkDirs, jobs[j].upload)
                  ELSE chunkDirs
  /\ uploads' = IF jobs[j].cleanup THEN uploads \ {jobs[j].upload} ELSE uploads
  /\ files' = RemoveKey(files, jobs[j].path)
  /\ jobs' = RemoveKey(jobs, j)
  /\ response' = Answer(500, "Assembly failed")
  /\ UNCHANGED <<uploadInfo, nextUpload, now, nextJob, inflight, putsLeft, serial, uploader, returned>>
  /\ UNCHANGED <<sessionVars, socketVars, download, trees, quotaVars>>

\* GET /api/upload/progress/:uploadId
UploadProgress(u) ==
  /\ serial => (jobs = EmptyMap /\ inflight = {})
  /\ response' = IF HasUpload(u)
                 THEN [Answer(200, "") EXCEPT
                         !.progress = GetUploadProgress(uploadInfo[u])]
                 ELSE Answer(404, "Upload not found")
  /\ UNCHANGED <<uploadInfo, uploads, nextUpload, chunkDirs, files, now, jobs,
                 nextJob, inflight, putsLeft, serial, uploader, returned>>
  /\ UNCHANGED <<sessionVars, socketVars, download, trees, quotaVars>>

NextUpload ==
  \/ \E c \in Codes, size \in FileSizes, n \in 1..MaxChunks :
       InitializeUpload(c, size, n)
  \/ \E u \in UploadIds \cup {NoUpload}, raw \in RawIndexes, data \in Datas :
       RouteChunkStore(u, raw, data)
  \/ \E r \in inflight : RouteChunkHandle(r)
  \/ \E u \in UploadIds, chunkIndex \in (-1)..MaxChunks, data \in Datas :
       UploadChunkBegin(u, chunkIndex, data)
  \/ \E r \in inflight : UploadChunkFinish(r)
  \/ \E u \in UploadIds \cup {NoUpload} : CompleteBegin(u)
  \/ \E j \in DOMAIN jobs : CompleteRead(j)
  \/ \E j \in DOMAIN jobs : CompleteVerify(j)
  \/ \E j \in DOMAIN jobs : CompleteCleanup(j)
  \/ \E j \in DOMAIN jobs : CompleteRollback(j)

InitSerial ==
  InitState /\ InitStore /\ InitConfig /\ recording = FALSE /\ serial = TRUE

\* the sockets that connect while uploads are followed
StorageSockets == 1..NumStorageSockets

\* uploads into sessions that are created, joined, written to, left and deleted
\* by their timers, by a client that waits for each answer: files sent whole to
\* POST /api/upload, and files sent as one chunk and completed
NextStorage ==
  \/ \E c \in Codes : CreateSession(c)
  \/ \E s \in StorageSockets : Connect(s)
  \/ \E s \in StorageSockets, c \in Codes,
        t \in (1..(nextToken - 1)) \cup {NoToken} : JoinRoom(s, c, t)
  \/ JoinRoomResume
  \/ \E s \in StorageSockets, c \in Codes, t \in 1..(nextToken - 1) :
        SendMessage(s, c, t, TextMessage(c, t))
  \/ \E s \in StorageSockets : Disconnect(s)
  \/ DisconnectResume
  \/ \E c \in Codes : TimerFire(c)
  \/ \E d \in deleting : DeleteSessionFinish(d)
  \/ \E c \in Codes, size \in SingleSizes : UploadStore(c, size)
  \/ \E r \in singles : UploadHandle(r)
  \/ \E c \in Codes, size \in FileSizes : InitializeUpload(c, size, 1)
  \/ \E u \in UploadIds, data \in Datas : RouteChunkStore(u, <<"0">>, data)
  \/ \E r \in inflight : RouteChunkHandle(r)
  \/ \E u \in UploadIds : CompleteBegin(u)
  \/ \E j \in DOMAIN jobs : CompleteRead(j)
  \/ \E j \in DOMAIN jobs : CompleteVerify(j)
  \/ \E j \in DOMAIN jobs : CompleteCleanup(j)
  \/ \E j \in DOMAIN jobs : CompleteRollback(j)

SpecStorage == InitSerial /\ [][NextStorage]_vars

\* messages of clients that name themselves or someone else as the sender, sent
\* between uploads, each of which reads the server's clock
NextStamp ==
  \/ \E c \in Codes : CreateSession(c)
  \/ \E s \in StorageSockets : Connect(s)
  \/ \E s \in StorageSockets, c \in Codes : JoinRoom(s, c, NoToken)
  \/ JoinRoomResume
  \/ \E s \in StorageSockets, c \in Codes, t \in 1..(nextToken - 1) :
        SendMessage(s, c, t, TextMessage(c, t))
  \/ \E s \in StorageSockets, c \in Codes, t \in 1..(nextToken - 1) :
        \E f \in (Tokens \cup {UnknownToken}) \ {t} :
          SendMessage(s, c, t, ForgedMessage(c, f))
  \/ \E s \in StorageSockets : Disconnect(s)
  \/ DisconnectResume
  \/ \E c \in Codes, size \in SingleSizes : UploadStore(c, size)
  \/ \E r \in singles : UploadHandle(r)

SpecStamp == InitSerial /\ [][NextStamp]_vars

\* sessions that are created, joined, left and cleaned up while files are sent
\* to POST /api/upload under codes that may name no session
NextOrphan ==
  \/ \E c \in Codes : CreateSession(c)
  \/ \E s \in StorageSockets : Connect(s)
  \/ \E s \in StorageSockets, c \in Codes : JoinRoom(s, c, NoToken)
  \/ JoinRoomResume
  \/ \E s \in StorageSockets : Disconnect(s)
  \/ DisconnectResume
  \/ \E c \in Codes : TimerFire(c)
  \/ \E e \in SUBSET Codes : SweepStart(e)
  \/ \E d \in deleting : DeleteSessionFinish(d)
  \/ CleanupInactiveSessions
  \/ \E c \in Codes, size \in SingleSizes : UploadStore(c, size)
  \/ \E r \in singles : UploadHandle(r)

\* setInterval runs the sweeper every 30 s, and the awaited removals end
SweeperFairness ==
  /\ WF_vars(\E e \in SUBSET Codes : SweepStart(e))
  /\ WF_vars(\E d \in deleting : DeleteSessionFinish(d))
  /\ WF_vars(CleanupInactiveSessions)

SpecOrphan == Init /\ [][NextOrphan]_vars /\ SweeperFairness

\* the uploads opened while the quota is followed
QuotaUploadIds == 1..QuotaUploads

\* two chunked uploads into one session, sent in chunks of one byte, whose
\* requests may overlap
InitQuota ==
  /\ InitState /\ InitStoreWith(QuotaPuts) /\ InitConfig
  /\ recording = FALSE /\ serial = FALSE

NextQuota ==
  \/ \E c \in Codes : CreateSession(c)
  \/ \E c \in Codes, size \in FileSizes :
       InitializeUploadWithin(QuotaUploads, c, size, size)
  \/ \E u \in QuotaUploadIds, i \in 0..(MaxChunks - 1) :
       RouteChunkStore(u, DecimalString(i), <<1>>)
  \/ \E r \in inflight : RouteChunkHandle(r)
  \/ \E u \in QuotaUploadIds : CompleteBegin(u)
  \/ \E j \in DOMAIN jobs : CompleteRead(j)
  \/ \E j \in DOMAIN jobs : CompleteVerify(j)
  \/ \E j \in DOMAIN jobs : CompleteCleanup(j)
  \/ \E j \in DOMAIN jobs : CompleteRollback(j)

SpecQuota == InitQuota /\ [][NextQuota]_vars

\* the upload engine under requests that may overlap
SpecUpload == Init /\ [][NextUpload]_vars

\* the upload engine under a client that waits for each answer
SpecAssembly == InitSerial /\ [][NextUpload]_vars

\* the same client, which also asks for the progress of its uploads
NextProgress ==
  \/ NextUpload
  \/ \E u \in UploadIds : UploadProgress(u)

SpecProgress == InitSerial /\ [][NextProgress]_vars

----------------------------------------------------------------------------
(***************************************************************************)
(* GET /downloads/:sessionId/:filename and the paths of FileStorageManager *)
(* (POSIX path module: "/" is the only separator).                         *)
(***************************************************************************)
PathChars == {"a", ".", "/", "\\"}

\* the values a path parameter may take once Express has decoded it
Names == UNION {[1..n -> PathChars] : n \in 1..MaxNameLen}

\* the data directory, and the name of a session's files directory
BaseStorageDir == <<"/", "d">>

FilesDirName == <<"f", "i", "l", "e", "s">>

\* String.prototype.includes
Includes(str, sub) ==
  \E k \in 0..(Len(str) - Len(sub)) : SubSeq(str, k + 1, k + Len(sub)) = sub

\* String.prototype.startsWith
StartsWith(str, prefix) ==
  Len(prefix) <= Len(str) /\ SubSeq(str, 1, Len(prefix)) = prefix

\* the segments of a path between its separators
RECURSIVE Split(_)
Split(str) ==
  IF str = <<>> THEN << <<>> >>
  ELSE IF Head(str) = "/" THEN << <<>> >> \o Split(Tail(str))
  ELSE LET rest == Split(Tail(str))
       IN << <<Head(str)>> \o Head(rest) >> \o Tail(rest)

\* the segments of an absolute path with "", "." and ".." resolved
RECURSIVE Normalize(_, _)
Normalize(done, segments) ==
  IF segments = <<>> THEN done
  ELSE LET seg == Head(segments) IN
       IF seg = <<>> \/ seg = <<".">> THEN Normalize(done, Tail(segments))
       ELSE IF seg = <<".", ".">>
       THEN Normalize(IF done = <<>> THEN <<>>
                      ELSE SubSeq(done, 1, Len(done) - 1), Tail(segments))
       ELSE Normalize(Append(done, seg), Tail(segments))

RECURSIVE Render(_)
Render(segments) ==
  IF segments = <<>> THEN <<>>
  ELSE <<"/">> \o Head(segments) \o Render(Tail(segments))

\* path.resolve of an absolute path: normalized, no trailing separator
PathResolve(p) ==
  LET segments == Normalize(<<>>, Split(p))
  IN IF segments = <<>> THEN <<"/">> ELSE Render(segments)

\* path.join(a, b) of an absolute a: normalized, a trailing separator kept
PathJoin(a, b) ==
  LET joined == a \o <<"/">> \o b
      resolved == PathResolve(joined)
  IN IF joined[Len(joined)] = "/" /\ resolved # <<"/">>
     THEN resolved \o <<"/">> ELSE resolved

\* FileStorageManager.getSessionDir
GetSessionDir(sessionId) == PathJoin(BaseStorageDir, sessionId)

\* FileStorageManager.getSessionFilesDir
GetSessionFilesDir(sessionId) == PathJoin(GetSessionDir(sessionId), FilesDirName)

\* InvalidPath with the tests of the session id left out
InvalidPathFilenameOnly(sessionId, filename) ==
  \/ Includes(filename, <<".", ".">>)
  \/ Includes(filename, <<"/">>)
  \/ Includes(filename, <<"\\">>)

\* the download route, lines 150-151
InvalidPath(sessionId, filename) ==
  \/ Includes(sessionId, <<".", ".">>)
  \/ Includes(sessionId, <<"/">>)
  \/ Includes(sessionId, <<"\\">>)
  \/ Includes(filename, <<".", ".">>)
  \/ Includes(filename, <<"/">>)
  \/ Includes(filename, <<"\\">>)

DownloadAnswer(sessionId, filename, status, sent) ==
  [sessionId |-> sessionId, filename |-> filename, status |-> status, sent |-> sent]

\* GET /downloads/:sessionId/:filename.  onDisk is what the disk holds at the
\* path asked for: a "file", a "directory" or nothing ("absent").  A files
\* directory is made by mkdir only, so it is never a file.  res.sendFile of a
\* directory sends nothing and the request ends 404.  The route keeps nothing
\* from one request to the next, so one request is followed.
Download(sessionId, filename, onDisk) ==
  /\ download = NoDownload
  /\ LET sessionFilesDir == GetSessionFilesDir(sessionId)
         filePath == PathJoin(sessionFilesDir, filename)
         resolvedPath == PathResolve(filePath)
         resolvedSessionDir == PathResolve(sessionFilesDir)
     IN /\ (resolvedPath = resolvedSessionDir) => onDisk # "file"
        /\ download' =
             IF InvalidPath(sessionId, filename)
             THEN DownloadAnswer(sessionId, filename, 400, <<>>)
             ELSE IF ~StartsWith(resolvedPath, resolvedSessionDir)
             THEN DownloadAnswer(sessionId, filename, 400, <<>>)
             ELSE IF onDisk = "absent"
             THEN DownloadAnswer(sessionId, filename, 404, <<>>)
             ELSE IF onDisk = "directory"
             THEN DownloadAnswer(sessionId, filename, 404, <<>>)
             ELSE DownloadAnswer(sessionId, filename, 200, resolvedPath)
  /\ UNCHANGED <<sessionVars, socketVars, uploadVars, trees, quotaVars>>

NextDownload ==
  \E sessionId \in Names, filename \in Names,
     onDisk \in {"file", "directory", "absent"} :
       Download(sessionId, filename, onDisk)

SpecDownload == Init /\ [][NextDownload]_vars

----------------------------------------------------------------------------
(***************************************************************************)
(* Properties of the session registry.                                     *)
(***************************************************************************)

\* C1: in every reachable state every session has at most two clients with
\* isConnected = true.
C1_ConnectedAtMostTwo ==
  \A c \in DOMAIN sessions : Cardinality(ConnectedClients(sessions[c])) <= 2

\* C2: in every reachable state the clients map of every session holds at most
\* two entries, connected or not.
C2_ClientsAtMostTwo ==
  \A c \in DOMAIN sessions : Cardinality(DOMAIN sessions[c].clients) <= 2

\* C3: no step removes a session from the registry while one of its clients has
\* isConnected = true.
C3_NoDeleteWhileConnected ==
  [][\A c \in DOMAIN sessions :
       c \notin DOMAIN sessions' => ConnectedClients(sessions[c]) = {}]_vars

\* C4: a joinRoom whose client token is a key of the session's clients map is
\* answered with that same token as a reconnect, adds no slot, and leaves that
\* slot connected and bound to the calling socket.
C4_TokenStability ==
  [][\A s \in Sockets, c \in Codes, t \in Tokens :
       (/\ c \in DOMAIN sessions
        /\ t \in DOMAIN sessions[c].clients
        /\ JoinRoom(s, c, t))
       => /\ pending'[Len(pending')].status = "reconnected"
          /\ pending'[Len(pending')].clientToken = t
          /\ DOMAIN sessions'[c].clients = DOMAIN sessions[c].clients
          /\ sessions'[c].clients[t] = [socketId |-> s, isConnected |-> TRUE]
          /\ nextToken' = nextToken]_vars

\* C4 witness: a member whose slot was disconnected is connected again through
\* the reconnect branch, on another socket than the closed one.
C4_Witness ==
  \E i \in DOMAIN pending, c \in DOMAIN sessions :
    /\ pending[i].kind = "joinRoom"
    /\ pending[i].status = "reconnected"
    /\ pending[i].code = c
    /\ Cardinality(DOMAIN sessions[c].clients) = 2
    /\ \E x \in Sockets : socketState[x] = "closed"
    /\ sessions[c].clients[pending[i].clientToken].socketId = pending[i].socket

----------------------------------------------------------------------------
(***************************************************************************)
(* Properties of the message fan-out, on the recorded events.              *)
(***************************************************************************)
RECURSIVE IsSubseq(_, _)
IsSubseq(a, b) ==
  IF a = <<>> THEN TRUE
  ELSE IF b = <<>> THEN FALSE
  ELSE IF Head(a) = Head(b) THEN IsSubseq(Tail(a), Tail(b))
  ELSE IsSubseq(a, Tail(b))

\* the positions of inbox[s] that hold an event of the given type for room c
EventsAt(s, c, type) ==
  {i \in DOMAIN inbox[s] : inbox[s][i].type = type /\ inbox[s][i].code = c}

\* the messages socket s received from room c at positions after k, in order
RECURSIVE MessagesAfter(_, _, _)
MessagesAfter(s, c, k) ==
  IF k >= Len(inbox[s]) THEN <<>>
  ELSE IF k + 1 \in EventsAt(s, c, "receiveMessage")
       THEN <<inbox[s][k + 1].message>> \o MessagesAfter(s, c, k + 1)
       ELSE MessagesAfter(s, c, k + 1)

NumSessionJoined(inb) ==
  Cardinality(UNION {{<<s, i>> : i \in {j \in DOMAIN inb[s] :
                                          inb[s][j].type = "sessionJoined"}} :
                     s \in Sockets})

\* C6: a socket receives no message of a session before its sessionJoined for
\* it; for every socket in a session's room, the snapshot of its latest
\* sessionJoined followed by the messages it received afterwards is exactly the
\* session's history (each message in the snapshot or live, never both, never
\* neither); and each successful joinRoom is answered by exactly one
\* sessionJoined, which no other step emits.
C6_SnapshotSeam ==
  /\ [](\A s \in Sockets, c \in DOMAIN sessions :
          /\ \A i \in EventsAt(s, c, "receiveMessage") :
               \E j \in EventsAt(s, c, "sessionJoined") : j < i
          /\ (socketState[s] = "open" /\ c \in rooms[s])
             => /\ EventsAt(s, c, "sessionJoined") # {}
                /\ LET k == Max(EventsAt(s, c, "sessionJoined"))
                   IN inbox[s][k].history \o MessagesAfter(s, c, k)
                        = sessions[c].history)
  /\ [][NumSessionJoined(inbox') =
          NumSessionJoined(inbox) +
            (IF /\ JoinRoomResume
                /\ Head(pending).status # "error"
                /\ socketState[Head(pending).socket] = "open"
             THEN 1 ELSE 0)]_vars

\* C6 witness: a socket whose snapshot holds a message that was appended between
\* its joinRoom and the continuation, and that received a later message live.
C6_Witness ==
  \E s \in Sockets, c \in DOMAIN sessions :
    /\ c \in rooms[s]
    /\ Cardinality(EventsAt(s, c, "sessionJoined")) = 1
    /\ LET k == Max(EventsAt(s, c, "sessionJoined")) IN
         /\ Len(inbox[s][k].history) = 1
         /\ Len(MessagesAfter(s, c, k)) = 1
         /\ \E t \in DOMAIN sessions[c].clients :
              /\ sessions[c].clients[t].socketId = s
              /\ inbox[s][k].clientToken = t
              /\ inbox[s][k].history[1].sender # t

\* C7: the messages a socket received from a session's room are, in the order
\* received, a subsequence of the session's history.
C7_DeliveryInHistoryOrder ==
  \A s \in Sockets, c \in DOMAIN sessions :
    IsSubseq(MessagesAfter(s, c, 0), sessions[c].history)

\* C7 witness: a member socket that received two messages live.
C7_Witness ==
  \E s \in Sockets, c \in DOMAIN sessions :
    /\ Len(MessagesAfter(s, c, 0)) = 2
    /\ MessagesAfter(s, c, 0) = sessions[c].history

----------------------------------------------------------------------------
(***************************************************************************)
(* Properties of the chunked upload engine.                                *)
(***************************************************************************)
\* a step leaves the upload's sets and the stored bytes of its chunk n as they were
ChunkUnchanged(u, n) ==
  /\ uploadInfo'[u].receivedChunks = uploadInfo[u].receivedChunks
  /\ uploadInfo'[u].chunkPaths = uploadInfo[u].chunkPaths
  /\ chunkDirs'[u][uploadInfo'[u].chunkPaths[n]]
       = chunkDirs[u][uploadInfo[u].chunkPaths[n]]

AlreadyReceived(u, n) == u \in uploads /\ n \in uploadInfo[u].receivedChunks

\* C8: a chunk sent for an index that is already in receivedChunks is answered
\* as a success and leaves receivedChunks, chunkPaths and the stored bytes of
\* that chunk unchanged, with the same progress as before, through uploadChunk
\* and through POST /api/upload/chunk (its multer write and its handler).
C8_ChunkResendIdempotent ==
  [][/\ \A u \in UploadIds, raw \in RawIndexes, data \in Datas :
          (/\ ~IsNaN(raw)
           /\ AlreadyReceived(u, ParseInt(raw))
           /\ RouteChunkStore(u, raw, data))
          => ChunkUnchanged(u, ParseInt(raw))
     /\ \A r \in inflight :
          (/\ r.door = "route"
           /\ ~IsNaN(r.raw)
           /\ AlreadyReceived(r.upload, ParseInt(r.raw))
           /\ RouteChunkHandle(r))
          => /\ ChunkUnchanged(r.upload, ParseInt(r.raw))
             /\ response'.status = 200
             /\ response'.progress = GetUploadProgress(uploadInfo[r.upload])
     /\ \A u \in UploadIds, n \in 0..(MaxChunks - 1), data \in Datas :
          (/\ AlreadyReceived(u, n)
           /\ UploadChunkBegin(u, n, data))
          => /\ ChunkUnchanged(u, n)
             /\ response'.status = 200
             /\ GetUploadProgress(uploadInfo'[u]) = GetUploadProgress(uploadInfo[u])
    ]_vars

\* the stored chunks of upload u from index i on, in index order, concatenated
RECURSIVE InOrder(_, _)
InOrder(u, i) ==
  IF i >= uploadInfo[u].totalChunks THEN <<>>
  ELSE chunkDirs[u][uploadInfo[u].chunkPaths[i]] \o InOrder(u, i + 1)

\* every declared chunk of u is received, and together they have the declared size
FullyReceived(u) ==
  /\ u \in uploads
  /\ uploadInfo[u].receivedChunks = 0..(uploadInfo[u].totalChunks - 1)
  /\ Len(InOrder(u, 0)) = uploadInfo[u].fileSize

\* C9: complete on an upload whose declared chunks are all received and
\* concatenate to fileSize bytes starts the assembly, never enters the error
\* path, and ends answered with a descriptor whose file holds
\* chunk_0 || ... || chunk_{N-1}, whatever the order of arrival.
C9_AssemblyCorrect ==
  /\ [](\A j \in DOMAIN jobs :
          FullyReceived(jobs[j].upload) => jobs[j].phase # "rollback")
  /\ [][/\ \A u \in UploadIds :
             (FullyReceived(u) /\ CompleteBegin(u))
             => \E j \in DOMAIN jobs' \ DOMAIN jobs : jobs'[j].upload = u
        /\ \A j \in DOMAIN jobs \ DOMAIN jobs' :
             FullyReceived(jobs[j].upload)
             => /\ response'.status = 200
                /\ response'.path = jobs[j].path
                /\ jobs[j].path \in DOMAIN files'
                /\ files'[jobs[j].path].bytes = InOrder(jobs[j].upload, 0)
       ]_vars

\* C9 witness: an upload of two chunks that arrived last chunk first has been
\* assembled, and the file holds the two different chunks.
C9_Witness ==
  \E u \in DOMAIN uploadInfo :
    /\ u \notin uploads
    /\ uploadInfo[u].order = <<1, 0>>
    /\ response.status = 200
    /\ response.path \in DOMAIN files
    /\ Len(files[response.path].bytes) = 2
    /\ files[response.path].bytes[1] # files[response.path].bytes[2]

----------------------------------------------------------------------------
(***************************************************************************)
(* Properties of the download route.                                       *)
(***************************************************************************)
\* str holds a separator, or two dots in a row
HasSeparatorOrDots(str) ==
  \E k \in DOMAIN str :
    \/ str[k] \in {"/", "\\"}
    \/ k < Len(str) /\ str[k] = "." /\ str[k + 1] = "."

\* the path sent lies below <root>/<code>/files/, code being one segment
Under(sent, code) ==
  LET dir == Normalize(<<>>, Split(BaseStorageDir) \o <<code, FilesDirName>>)
      segments == Normalize(<<>>, Split(sent))
  IN /\ Len(segments) > Len(dir)
     /\ SubSeq(segments, 1, Len(dir)) = dir

\* C10: a download request whose code or file name holds "/", "\" or ".." is
\* answered 400 and sends no file, and every path a request is served lies
\* under <root>/<code>/files/.
C10_DownloadPathSafety ==
  /\ (HasSeparatorOrDots(download.sessionId) \/ HasSeparatorOrDots(download.filename))
     => (download.status = 400 /\ download.sent = <<>>)
  /\ download.sent # <<>> => Under(download.sent, download.sessionId)

\* C10 witness: a request that climbs out of the files directory was refused.
C10_Witness ==
  /\ download.sessionId = <<"a">>
  /\ download.filename = <<".", ".", "/">>
  /\ download.status = 400

----------------------------------------------------------------------------
(***************************************************************************)
(* Properties of session cleanup, limits and quota.                        *)
(***************************************************************************)

\* C11: a session with no connected client is in time absent from the registry
\* with its storage tree deleted, unless a client connects to it first; this
\* holds also for a session that was never joined and so never had a timer.
C11_EventuallyCleaned ==
  \A c \in Codes :
    (c \in DOMAIN sessions /\ ConnectedClients(sessions[c]) = {})
      ~> (\/ c \notin DOMAIN sessions /\ c \notin trees
          \/ c \in DOMAIN sessions /\ ConnectedClients(sessions[c]) # {})

\* the sweeper is deleting a session that was never joined and had no timer
C11_Witness ==
  \E d \in deleting :
    /\ d.by = "sweep"
    /\ d.code \in DOMAIN sessions
    /\ sessions[d.code].clients = EmptyMap
    /\ ~sessions[d.code].cleanupTimer.set


\* C12: a joinRoom on a session with two connected clients, without a token or
\* with a token that is no key of its clients map, is refused as SessionFull: the
\* registry is unchanged, the caller is sent an error event and joins no room;
\* and no socket is sent a receiveMessage of a session whose room it is not in.
C12_SessionFullRejected ==
  [][/\ \A s \in Sockets, c \in Codes, t \in Tokens \cup {NoToken, UnknownToken} :
          (/\ c \in DOMAIN sessions
           /\ Cardinality(ConnectedClients(sessions[c])) = 2
           /\ t \notin DOMAIN sessions[c].clients
           /\ JoinRoom(s, c, t))
          => /\ JoinSession(c, t, s).error = "SessionFull"
             /\ sessions' = sessions
             /\ nextToken' = nextToken
             /\ rooms' = rooms
             /\ pending' = Append(pending, pending'[Len(pending')])
             /\ pending'[Len(pending')].socket = s
             /\ pending'[Len(pending')].status = "error"
     /\ (JoinRoomResume /\ Head(pending).status = "error")
          => /\ rooms' = rooms
             /\ sessions' = sessions
             /\ \A s \in Sockets :
                  inbox'[s] = IF s = Head(pending).socket /\ socketState[s] = "open"
                              THEN Append(inbox[s], ErrorEvent) ELSE inbox[s]
     /\ \A s \in Sockets :
          \A i \in (Len(inbox[s]) + 1)..Len(inbox'[s]) :
            inbox'[s][i].type = "receiveMessage" => inbox'[s][i].code \in rooms[s]
    ]_vars

\* a third socket's joinRoom on a session with two connected clients was refused
C12_Witness ==
  \E i \in DOMAIN pending :
    /\ pending[i].kind = "joinRoom"
    /\ pending[i].status = "error"
    /\ pending[i].code \in DOMAIN sessions
    /\ Cardinality(ConnectedClients(sessions[pending[i].code])) = 2
    /\ \A t \in DOMAIN sessions[pending[i].code].clients :
         sessions[pending[i].code].clients[t].socketId # pending[i].socket


C14_RegistryWithinLimit ==
  maxActiveSessionsEnv # -1 =>
    Cardinality(DOMAIN sessions) <= maxActiveSessionsEnv

\* the part of C14 that holds: under a limit above zero the registry stays within
\* it, createSession at the limit answers 429 and adds nothing, and after a
\* deletion has left the registry below the limit createSession succeeds
RegistryWithinPositiveLimit ==
  /\ maxActiveSessionsEnv > 0 =>
       Cardinality(DOMAIN sessions) <= maxActiveSessionsEnv
  /\ \A c \in LimitCodes \ DOMAIN sessions :
       IF maxActiveSessionsEnv > 0
          /\ Cardinality(DOMAIN sessions) = maxActiveSessionsEnv
       THEN /\ CreateSessionResult(c).status = 429
            /\ CreateSessionResult(c).sessions = sessions
       ELSE maxActiveSessionsEnv > 0 =>
            /\ CreateSessionResult(c).status = 200
            /\ DOMAIN CreateSessionResult(c).sessions = DOMAIN sessions \cup {c}


\* C15: the handler of POST /api/upload answers 413 exactly when the bytes the
\* session held before the request plus the size of the file exceed
\* MAX_SESSION_STORAGE_BYTES, and the currentUsage of the 413 is the number of
\* bytes held before the request.
C15_QuotaDecision ==
  [][\A r \in singles :
       UploadHandle(r) =>
         /\ response'.status = 413 <=> r.usedBefore + r.size > MaxSessionStorageBytes
         /\ response'.status = 413 => response'.currentUsage = r.usedBefore
    ]_vars


\* C16: when the handler of POST /api/upload denies a file for quota, the files
\* under the session's tree are those it held before the request, and the
\* registry (storage used, activity flag, cleanup timer) is unchanged.
C16_DeniedUploadLeavesNoTrace ==
  [][\A r \in singles :
       (UploadHandle(r) /\ response'.status = 413)
         => /\ FilesOf(files', r.sessionId) = r.before
            /\ sessions' = sessions
    ]_vars

\* the part of C16 that holds: a denied file whose path was free before the
\* request is removed again, and the registry is unchanged in every case
DeniedFreshUploadLeavesNoTrace ==
  [][\A r \in singles :
       (UploadHandle(r) /\ response'.status = 413)
         => /\ r.path \notin r.before => FilesOf(files', r.sessionId) = r.before
            /\ sessions' = sessions
    ]_vars


\* the step has run updateSessionStorageUsage on the live session c
UsageUpdated(c, size) ==
  /\ sessions'[c].hasActivity
  /\ sessions'[c].totalStorageUsed = sessions[c].totalStorageUsed + size
  /\ sessions'[c].cleanupTimer = NullTimer

\* C20: when POST /api/upload or POST /api/upload/complete answers success for a
\* file of a live session, the session has hasActivity = true, its
\* totalStorageUsed has grown by the size of the file, and no cleanup timer is
\* pending.
C20_CompletionUpdatesSession ==
  [][/\ \A r \in singles :
          (/\ UploadHandle(r)
           /\ response'.status = 200
           /\ r.sessionId \in DOMAIN sessions)
          => UsageUpdated(r.sessionId, r.size)
     /\ \A j \in DOMAIN jobs :
          (/\ CompleteCleanup(j) \/ CompleteVerify(j)
           /\ j \notin DOMAIN jobs'
           /\ response' = Descriptor(jobs[j])
           /\ uploadInfo[jobs[j].upload].sessionId \in DOMAIN sessions)
          => UsageUpdated(uploadInfo[jobs[j].upload].sessionId,
                          uploadInfo[jobs[j].upload].fileSize)
    ]_vars

\* the part of C20 that holds: the single-shot route updates the session
SingleShotUpdatesSession ==
  [][\A r \in singles :
       (/\ UploadHandle(r)
        /\ response'.status = 200
        /\ r.sessionId \in DOMAIN sessions)
       => UsageUpdated(r.sessionId, r.size)
    ]_vars


\* C17: in every reachable state a registered session has a cleanup timer
\* pending if and only if none of its clients is connected.
C17_TimerIffNoClient ==
  \A c \in DOMAIN sessions :
    sessions[c].cleanupTimer.armed <=> ConnectedClients(sessions[c]) = {}

\* the direction of C17 that holds: a timer is pending only while no client is
\* connected
TimerOnlyWithoutClient ==
  \A c \in DOMAIN sessions :
    sessions[c].cleanupTimer.armed => ConnectedClients(sessions[c]) = {}

\* C18: hasActivity of a registered session never goes from true to false, is
\* false when the session is created, and is changed by no joinRoom and no
\* disconnect.
C18_ActivityMonotonic ==
  [][/\ \A c \in DOMAIN sessions' :
          IF c \in DOMAIN sessions
          THEN sessions[c].hasActivity => sessions'[c].hasActivity
          ELSE ~sessions'[c].hasActivity
     /\ (\/ \E s \in Sockets, c \in Codes, t \in Tokens \cup {NoToken, UnknownToken} :
              JoinRoom(s, c, t)
         \/ JoinRoomResume
         \/ \E s \in Sockets : Disconnect(s)
         \/ DisconnectResume)
        => \A c \in DOMAIN sessions' :
             /\ c \in DOMAIN sessions
             /\ sessions'[c].hasActivity = sessions[c].hasActivity
    ]_vars

\* a session that a message or an upload marked active has been left by its
\* clients, and keeps the mark under its 20 minute timer
C18_Witness ==
  \E c \in DOMAIN sessions :
    /\ sessions[c].hasActivity
    /\ sessions[c].clients # EmptyMap
    /\ ConnectedClients(sessions[c]) = {}
    /\ sessions[c].cleanupTimer.armed
    /\ sessions[c].cleanupTimer.delay = DISCONNECT_GRACE_PERIOD

\* C19: a disconnect that leaves a session without connected clients leaves it
\* with its cleanup timer armed, at 60 s if hasActivity is false and at 20 min if
\* it is true; a disconnect that leaves a client connected schedules no timer.
C19_DisconnectArmsTimer ==
  [][\A s \in Sockets :
       Disconnect(s) =>
         \A c \in DOMAIN sessions :
           /\ c \in DOMAIN sessions'
           /\ (/\ ConnectedClients(sessions[c]) # {}
               /\ ConnectedClients(sessions'[c]) = {})
              => sessions'[c].cleanupTimer =
                   [set |-> TRUE, armed |-> TRUE,
                    delay |-> IF sessions[c].hasActivity THEN 1200000 ELSE 60000]
           /\ ConnectedClients(sessions'[c]) # {}
              => /\ sessions'[c].cleanupTimer = sessions[c].cleanupTimer
                 /\ ~sessions'[c].cleanupTimer.armed
    ]_vars

\* the last client of a session without activity has disconnected
C19_Witness ==
  \E c \in DOMAIN sessions :
    /\ ~sessions[c].hasActivity
    /\ sessions[c].clients # EmptyMap
    /\ ConnectedClients(sessions[c]) = {}
    /\ sessions[c].cleanupTimer.armed
    /\ sessions[c].cleanupTimer.delay = UNUSED_SESSION_CLEANUP_PERIOD


----------------------------------------------------------------------------
(***************************************************************************)
(* Properties of sendMessage and of the events of the room.                *)
(***************************************************************************)
\* the messages a client may put in a sendMessage for session c under token t
MessagesOf(c, t) ==
  {TextMessage(c, t)} \cup {ForgedMessage(c, f) : f \in Tokens \cup {UnknownToken}}

C22_ServerStamps ==
  /\ [](\A c \in DOMAIN sessions :
          \A i \in DOMAIN sessions[c].history :
            /\ sessions[c].history[i].sender \in DOMAIN sessions[c].clients
            /\ sessions[c].history[i].timestamp <= now)
  /\ [][\A s \in Sockets, c \in Codes, t \in Tokens :
          \A m \in MessagesOf(c, t) :
            (/\ SendMessage(s, c, t, m)
             /\ sessions' # sessions)
            => LET h == sessions'[c].history IN
                 /\ h[Len(h)].sender = t
                 /\ h[Len(h)].timestamp = now
                 /\ h[Len(h)].content = m.content
       ]_vars

\* a history holds a message that its client sent under another sender, stamped
\* with the token of the session's only member and a reading of the server's
\* clock
C22_Witness ==
  \E c \in DOMAIN sessions :
    /\ Cardinality(DOMAIN sessions[c].clients) = 1
    /\ \E i \in DOMAIN sessions[c].history :
         /\ sessions[c].history[i].content > MaxHistory
         /\ sessions[c].history[i].sender \in DOMAIN sessions[c].clients
         /\ sessions[c].history[i].timestamp = now
         /\ now > 0


\* the sockets the connected slots of session c are bound to
Channels(c) ==
  {sessions[c].clients[t].socketId : t \in ConnectedClients(sessions[c])}

\* C23: an accepted sendMessage adds exactly one receiveMessage, with the stamped
\* message, to the socket of every connected member of the session, the
\* sender's included, and nothing to a socket that is bound only to members of
\* other sessions.
C23_FanOut ==
  [][\A s \in Sockets, c \in FanoutCodes, t \in Tokens :
       (/\ SendMessage(s, c, t, TextMessage(c, t))
        /\ sessions' # sessions)
       => \A x \in Sockets :
            /\ x \in Channels(c)
               => inbox'[x] = Append(inbox[x],
                     ReceiveMessageEvent(c, FullMessage(t, TextMessage(c, t))))
            /\ (/\ x \notin Channels(c)
                /\ \E d \in DOMAIN sessions \ {c} : x \in Channels(d))
               => inbox'[x] = inbox[x]
    ]_vars

\* the part of C23 that holds: the message goes once to every open socket that
\* has joined the session's room, and to no socket outside the room
RoomReceives ==
  [][\A s \in Sockets, c \in FanoutCodes, t \in Tokens :
       (/\ SendMessage(s, c, t, TextMessage(c, t))
        /\ sessions' # sessions)
       => \A x \in Sockets :
            inbox'[x] = IF c \in rooms[x]
                        THEN Append(inbox[x],
                               ReceiveMessageEvent(c, FullMessage(t, TextMessage(c, t))))
                        ELSE inbox[x]
    ]_vars


\* the number of userConnected events the sockets have been sent
NumUserConnected(inb) ==
  Cardinality(UNION {{<<s, i>> : i \in {j \in DOMAIN inb[s] :
                                          inb[s][j].type = "userConnected"}} :
                     s \in Sockets})

\* C24: userConnected is emitted, to the sockets of the session's room, by the
\* continuation of a joinRoom that succeeded and raised the session's connected
\* count from fewer than 2 to 2, and by no other step: not by a join that
\* leaves the count at 1, and not by the reconnect of a member that was
\* connected already.
C24_UserConnectedOnSecond ==
  [][/\ NumUserConnected(inbox') # NumUserConnected(inbox) => JoinRoomResume
     /\ JoinRoomResume
        => LET p == Head(pending) IN
           IF /\ p.status # "error"
              /\ p.connectedBefore < 2
              /\ ConnectedCount(p.code) = 2
           THEN \A x \in Sockets :
                  (socketState[x] = "open" /\ p.code \in rooms'[x])
                  => /\ inbox'[x] # <<>>
                     /\ inbox'[x][Len(inbox'[x])] = UserConnectedEvent(p.code)
           ELSE NumUserConnected(inbox') = NumUserConnected(inbox)
    ]_vars

\* the part of C24 that holds: userConnected is emitted by the continuation of
\* a successful joinRoom that finds two clients connected, and by nothing else;
\* a join that leaves one client connected emits none
UserConnectedAtTwo ==
  [][/\ NumUserConnected(inbox') # NumUserConnected(inbox) => JoinRoomResume
     /\ JoinRoomResume
        => LET p == Head(pending) IN
           IF p.status # "error" /\ ConnectedCount(p.code) = 2
           THEN \A x \in Sockets :
                  (socketState[x] = "open" /\ p.code \in rooms'[x])
                  => /\ inbox'[x] # <<>>
                     /\ inbox'[x][Len(inbox'[x])] = UserConnectedEvent(p.code)
           ELSE NumUserConnected(inbox') = NumUserConnected(inbox)
    ]_vars


\* the slots, over all sessions, that are bound to socket s and connected
SlotsOn(s) ==
  {<<c, t>> \in (DOMAIN sessions) \X Tokens :
     /\ t \in ConnectedClients(sessions[c])
     /\ sessions[c].clients[t].socketId = s}

\* the sockets of the connected members of session c other than token t
OthersOf(c, t) ==
  {sessions[c].clients[o].socketId : o \in ConnectedClients(sessions[c]) \ {t}}

NumUserDisconnected(inb) ==
  Cardinality(UNION {{<<s, i>> : i \in {j \in DOMAIN inb[s] :
                                          inb[s][j].type = "userDisconnected"}} :
                     s \in Sockets})

\* what the disconnect of socket s does to the slot t of session c and to the
\* other member, and what its continuation emits
DisconnectOutcome(s, c, t) ==
  /\ ~sessions'[c].clients[t].isConnected
  /\ LET p == pending'[Len(pending')] IN
       IF OthersOf(c, t) = {} THEN p.other = NoSocket
       ELSE p.other \in OthersOf(c, t)

\* C25: when the socket of a connected client closes, every slot bound to it is
\* marked not connected, and the handler's continuation sends one
\* userDisconnected to the socket of the other member if that member is
\* connected, and none otherwise; no other step emits userDisconnected.
C25_UserDisconnected ==
  [][/\ \A s \in Sockets :
          Disconnect(s) => \A sl \in SlotsOn(s) : DisconnectOutcome(s, sl[1], sl[2])
     /\ DisconnectResume
        => \A x \in Sockets :
             inbox'[x] = IF x = Head(pending).other
                         THEN Append(inbox[x], UserDisconnectedEvent)
                         ELSE inbox[x]
     /\ NumUserDisconnected(inbox') # NumUserDisconnected(inbox) => DisconnectResume
    ]_vars

\* the part of C25 that holds: the same for a socket that is bound to one slot,
\* with the userDisconnected sent if the other member's socket is open
SingleSlotDisconnect ==
  [][/\ \A s \in Sockets :
          (Disconnect(s) /\ Cardinality(SlotsOn(s)) = 1)
          => \A sl \in SlotsOn(s) : DisconnectOutcome(s, sl[1], sl[2])
     /\ DisconnectResume
        => \A x \in Sockets :
             inbox'[x] = IF x = Head(pending).other /\ socketState[x] = "open"
                         THEN Append(inbox[x], UserDisconnectedEvent)
                         ELSE inbox[x]
     /\ NumUserDisconnected(inbox') # NumUserDisconnected(inbox) => DisconnectResume
    ]_vars


----------------------------------------------------------------------------
(***************************************************************************)
(* Properties of the chunk index and of completeUpload.                    *)
(***************************************************************************)
\* C26: the received chunks of every registered upload are indexes of
\* 0..totalChunks-1, and so are never more than totalChunks.
C26_ReceivedInRange ==
  \A u \in uploads :
    /\ uploadInfo[u].receivedChunks \subseteq 0..(uploadInfo[u].totalChunks - 1)
    /\ Cardinality(uploadInfo[u].receivedChunks) <= uploadInfo[u].totalChunks

\* the part of C26 that holds: uploadChunk answers an index outside
\* 0..totalChunks-1 with "Invalid chunk index" and changes nothing of the upload
UploadChunkRejectsOutOfRange ==
  [][\A u \in UploadIds, chunkIndex \in (-1)..MaxChunks, data \in Datas :
       (/\ UploadChunkBegin(u, chunkIndex, data)
        /\ u \in uploads
        /\ chunkIndex \notin 0..(uploadInfo[u].totalChunks - 1))
       => /\ response' = Answer(500, "Invalid chunk index")
          /\ UNCHANGED <<uploadInfo, uploads, chunkDirs, inflight>>
    ]_vars


\* C27: a complete for a registered upload that has received fewer chunks than
\* totalChunks is answered "Missing chunks"; it creates no file, starts no
\* assembly, and leaves the upload's record and its chunk directory as they were.
C27_IncompleteLeavesUpload ==
  [][\A u \in UploadIds :
       (/\ CompleteBegin(u)
        /\ u \in uploads
        /\ Cardinality(uploadInfo[u].receivedChunks) < uploadInfo[u].totalChunks)
       => /\ response' = Answer(500, "Missing chunks")
          /\ UNCHANGED <<files, jobs, uploadInfo, uploads, chunkDirs>>
    ]_vars

\* a complete was refused for an upload that holds one of its two chunks
C27_Witness ==
  /\ response = Answer(500, "Missing chunks")
  /\ \E u \in uploads :
       /\ uploadInfo[u].totalChunks = 2
       /\ Cardinality(uploadInfo[u].receivedChunks) = 1
       /\ u \in DOMAIN chunkDirs
       /\ DOMAIN chunkDirs[u] # {}


\* C28: a completeUpload whose assembled file has not the declared size, or
\* that meets an error while it assembles (a chunk without path, a chunk file
\* that cannot be read, a destination that is gone), enters its catch block and
\* is answered an error; when the catch block has run, the destination file,
\* the upload's chunk directory and the upload's record are gone, and the files
\* of the session are those it had, less the destination.
C28_FailedCompleteRollsBack ==
  [][/\ \A j \in DOMAIN jobs :
          CompleteVerify(j)
          => \/ /\ jobs[j].path \in DOMAIN files
                /\ Len(files[jobs[j].path].bytes) = uploadInfo[jobs[j].upload].fileSize
             \/ /\ j \in DOMAIN jobs'
                /\ jobs'[j].phase = "rollback"
                /\ jobs[j].path \notin DOMAIN files'
     /\ \A j \in DOMAIN jobs :
          (/\ CompleteRead(j)
           /\ \/ jobs[j].upload \notin DOMAIN chunkDirs
              \/ jobs[j].chunkPath \notin DOMAIN chunkDirs[jobs[j].upload]
              \/ /\ jobs[j].i + 1 < uploadInfo[jobs[j].upload].totalChunks
                 /\ ~HasChunkPath(uploadInfo[jobs[j].upload], jobs[j].i + 1))
          => jobs'[j].phase = "rollback"
     /\ \A j \in DOMAIN jobs :
          CompleteRollback(j)
          => /\ response'.status = 500
             /\ j \notin DOMAIN jobs'
             /\ jobs[j].path \notin DOMAIN files'
             /\ DOMAIN files' = DOMAIN files \ {jobs[j].path}
             /\ jobs[j].upload \notin uploads'
             /\ jobs[j].upload \notin DOMAIN chunkDirs'
    ]_vars

\* a completeUpload has failed after it had made its destination file, and
\* left no file, no chunk directory and no upload record
C28_Witness ==
  /\ response = Answer(500, "Assembly failed")
  /\ nextJob > 1
  /\ jobs = EmptyMap
  /\ uploads = {}
  /\ chunkDirs = EmptyMap
  /\ files = EmptyMap
  /\ now > 0


\* C29: from the end of a completeUpload on, the upload's record and its chunk
\* directory are gone, and a chunk, a progress request or a complete under an
\* id without record is answered Upload not found and changes neither the
\* uploads nor the disk: the assembled file stays.
C29_CompletedUploadIsGone ==
  /\ [][\A j \in DOMAIN jobs :
          CompleteCleanup(j)
          => /\ response'.status = 200
             /\ jobs[j].upload \notin uploads'
             /\ jobs[j].upload \notin DOMAIN chunkDirs'
             /\ files' = files
             /\ jobs[j].path \in DOMAIN files]_vars
  /\ [][\A u \in UploadIds :
          (/\ u \notin uploads
           /\ \/ \E raw \in RawIndexes, data \in Datas : RouteChunkStore(u, raw, data)
              \/ \E i \in (-1)..MaxChunks, data \in Datas : UploadChunkBegin(u, i, data)
              \/ CompleteBegin(u)
              \/ UploadProgress(u))
          => /\ response'.error = "Upload not found"
             /\ response'.status \in {404, 500}
             /\ UNCHANGED <<uploadInfo, uploads, chunkDirs, files, jobs, inflight>>]_vars

\* a request under the id of an upload whose file was assembled has been
\* answered Upload not found, and the file is in place
C29_Witness ==
  /\ response.error = "Upload not found"
  /\ nextUpload > MaxUploads
  /\ uploads = {}
  /\ chunkDirs = EmptyMap
  /\ jobs = EmptyMap
  /\ \E p \in DOMAIN files : Len(files[p].bytes) = uploadInfo[1].fileSize


\* the uploads a completeUpload call is at work on
Completing == {jobs[j].upload : j \in DOMAIN jobs}

\* the names of the chunk files the assembly of an upload reads
AssemblyReads(info) ==
  {ChunkPathAt(info, i) : i \in {k \in 0..(info.totalChunks - 1) : HasChunkPath(info, k)}}

\* C30: while a completeUpload call for an upload is running, no step changes
\* the upload's receivedChunks or chunkPaths, or the bytes of a chunk file the
\* assembly reads; the removal of the chunk directory by a completeUpload
\* itself is not a change of that kind.
C30_CompleteExcludesChunks ==
  [][\A u \in Completing :
       (u \in DOMAIN chunkDirs /\ u \in DOMAIN chunkDirs')
       => /\ uploadInfo'[u].receivedChunks = uploadInfo[u].receivedChunks
          /\ uploadInfo'[u].chunkPaths = uploadInfo[u].chunkPaths
          /\ \A p \in AssemblyReads(uploadInfo[u]) \cap DOMAIN chunkDirs[u] :
               /\ p \in DOMAIN chunkDirs'[u]
               /\ chunkDirs'[u][p] = chunkDirs[u][p]]_vars


----------------------------------------------------------------------------
(***************************************************************************)
(* Properties of overlapping completeUpload calls.                         *)
(***************************************************************************)

\* C31a: of the completeUpload calls on one upload, at most one returns a
\* fileInfo
OneDescriptorPerUpload ==
  \A a \in returned, b \in returned : a.upload = b.upload => a = b

\* C31b: once no completeUpload call on an upload is running, the file each
\* returned fileInfo names is on disk with the upload's fileSize bytes
ReturnedFileInPlace ==
  \A d \in returned :
    d.upload \notin {jobs[j].upload : j \in DOMAIN jobs}
    => /\ d.path \in DOMAIN files
       /\ Len(files[d.path].bytes) = d.size

\* C31: overlapping completeUpload calls on a fully received upload return at
\* most one fileInfo, and the file a returned fileInfo names is in place, whole,
\* once the calls have ended.
C31_OneCompleteWins == OneDescriptorPerUpload /\ ReturnedFileInPlace


----------------------------------------------------------------------------
(***************************************************************************)
(* Properties of the orphan sweep.                                         *)
(***************************************************************************)

\* a storage tree whose name is not the code of a registered session
Orphan(c) == c \in trees /\ c \notin DOMAIN sessions

\* a tree under a code that names no session is in time removed, or the code
\* is given to a new session
OrphanEventuallyRemoved == \A c \in Codes : Orphan(c) ~> ~Orphan(c)

C33_SweepSparesLiveTrees ==
  [][CleanupInactiveSessions
       => \A c \in DOMAIN sessions : c \in trees => c \in trees']_vars

\* cleanupInactiveSessions removes no tree of a session that was registered
\* when the sweep took the keys of the registry and still is
SweepSparesListedTrees ==
  [][CleanupInactiveSessions
       => \A c \in DOMAIN sessions \cap sweep.live : c \in trees => c \in trees']_vars


----------------------------------------------------------------------------
(***************************************************************************)
(* Properties of handleDisconnect, of reconnection and of the session lock *)
(***************************************************************************)

\* C34: once handleDisconnect has run for a closed socket, no slot of any
\* session is connected under that socket's id: every connected slot is bound
\* to an open socket, however often the socket had joined.
C34_ConnectedSlotsOnOpenSockets ==
  \A s \in Sockets : socketState[s] = "closed" => SlotsOn(s) = {}


\* the slots bound to socket s, connected or not
BoundTo(s) ==
  {<<c, t>> \in (DOMAIN sessions) \X Tokens :
     t \in DOMAIN sessions[c].clients /\ sessions[c].clients[t].socketId = s}

\* C35: a joinRoom under the token of a member binds the member's slot to the
\* socket that asks, connected; the later disconnect of another socket leaves
\* every slot that is not bound to it as it was, and when no slot is bound to
\* it (the member it served has reconnected elsewhere) it changes nothing in
\* the registry, so that no cleanup timer is set, and names no socket to send
\* userDisconnected to.
C35_StaleDisconnectIsIgnored ==
  /\ [][\A s \in Sockets, c \in DOMAIN sessions :
          \A t \in DOMAIN sessions[c].clients :
            JoinRoom(s, c, t)
            => sessions'[c].clients[t] = [socketId |-> s, isConnected |-> TRUE]]_vars
  /\ [][\A s \in Sockets :
          Disconnect(s)
          => /\ \A c \in DOMAIN sessions : \A t \in DOMAIN sessions[c].clients :
                  sessions[c].clients[t].socketId # s
                  => sessions'[c].clients[t] = sessions[c].clients[t]
             /\ BoundTo(s) = {}
                => /\ sessions' = sessions
                   /\ pending'[Len(pending')].other = NoSocket]_vars

\* socket s was given the slot of token t, the member has since reconnected on
\* another socket, and s has closed: the member is connected, no timer is set
\* and the disconnect names no socket
C35_Witness ==
  \E s \in Sockets, o \in Sockets, c \in DOMAIN sessions :
    \E t \in DOMAIN sessions[c].clients :
      /\ s # o
      /\ socketState[s] = "closed"
      /\ socketState[o] = "open"
      /\ \E i \in DOMAIN inbox[s] :
           /\ inbox[s][i].type = "sessionJoined"
           /\ inbox[s][i].code = c
           /\ inbox[s][i].clientToken = t
      /\ sessions[c].clients[t] = [socketId |-> o, isConnected |-> TRUE]
      /\ ~sessions[c].cleanupTimer.set
      /\ BoundTo(s) = {}
      /\ pending # <<>>
      /\ Head(pending).kind = "disconnect"
      /\ Head(pending).socket = s
      /\ Head(pending).other = NoSocket


\* C36: joinSession and handleDisconnect release the lock they take on every
\* way out, so that between two handler segments sessionLocks is empty and no
\* code stays locked.
C36_LocksReleased == sessionLocks = {}

\* a joinRoom has been refused, another has been answered sessionJoined, a
\* member's socket has closed, and no code is locked
C36_Witness ==
  /\ sessionLocks = {}
  /\ \E s \in Sockets : \E i \in DOMAIN inbox[s] : inbox[s][i] = ErrorEvent
  /\ \E s \in Sockets : \E i \in DOMAIN inbox[s] : inbox[s][i].type = "sessionJoined"
  /\ \E s \in Sockets, c \in DOMAIN sessions : \E t \in DOMAIN sessions[c].clients :
       /\ socketState[s] = "closed"
       /\ sessions[c].clients[t] = [socketId |-> s, isConnected |-> FALSE]


----------------------------------------------------------------------------
(***************************************************************************)
(* Properties of the quota under overlapping uploads.                      *)
(***************************************************************************)

\* the bytes of the files under <sessionDir>/files
StoredBytes(c) ==
  SumOver([p \in FilesOf(files, c) |-> Len(files[p].bytes)], FilesOf(files, c))

\* C37: POST /api/upload/init admits an upload exactly when the bytes the
\* session holds at that moment plus the declared fileSize do not exceed the
\* limit, each request on its own; a request that is refused opens no upload.
\* (That two uploads admitted in this way can together exceed the limit is the
\* state C37_Witness describes.)
C37_QuotaCheckedPerRequest ==
  [][\A c \in Codes, size \in FileSizes :
       InitializeUploadWithin(QuotaUploads, c, size, size)
       => /\ response'.status = 200
             <=> GetSessionStorageUsage(c) + size <= MaxSessionStorageBytes
          /\ response'.status # 200
             => response'.status = 413 /\ UNCHANGED <<uploads, uploadInfo>>]_vars

\* two uploads into one session were admitted and completed, no request is
\* under way, and the files of the session hold more bytes than the limit
C37_Witness ==
  /\ uploads = {} /\ jobs = EmptyMap /\ inflight = {}
  /\ \E a \in returned, b \in returned, c \in DOMAIN sessions :
       /\ a.upload # b.upload
       /\ a.path # b.path
       /\ a.path.sessionId = c /\ b.path.sessionId = c
       /\ a.path \in DOMAIN files /\ b.path \in DOMAIN files
       /\ Len(files[a.path].bytes) = a.size
       /\ Len(files[b.path].bytes) = b.size
       /\ a.size <= MaxSessionStorageBytes
       /\ b.size <= MaxSessionStorageBytes
       /\ StoredBytes(c) > MaxSessionStorageBytes


----------------------------------------------------------------------------
(***************************************************************************)
(* Properties of createSession and of deletion.                            *)
(***************************************************************************)

\* C38: the code createSession registers a session under was not a key of the
\* registry; every session registered before is still registered, unchanged,
\* and the new one is a fresh session at the end of the Map.
C38_FreshCode ==
  [][\A c \in LimitCodes :
       CreateSession(c)
       => /\ c \notin DOMAIN sessions
          /\ \A x \in DOMAIN sessions :
               x \in DOMAIN sessions' /\ sessions'[x] = sessions[x]
          /\ sessions' # sessions
             => /\ DOMAIN sessions' = DOMAIN sessions \cup {c}
                /\ sessions'[c] = NewSession
                /\ sessionOrder' = Append(sessionOrder, c)]_vars

\* a session was created while another, which a client has joined, was live
C38_Witness ==
  \E a \in DOMAIN sessions, b \in DOMAIN sessions :
    /\ a # b
    /\ sessions[a].clients # EmptyMap
    /\ sessions[b] = NewSession
    /\ sessionOrder = <<a, b>>


\* a session has been registered under code c: a token was minted, which only
\* a join to a registered session does, and c is the one code there is
HasBeenRegistered(c) == nextToken > 1 /\ Codes = {c}

\* C39: once the code of a session is no longer a key of the registry, no file
\* lies under <root>/<code>/files, whenever it was written; GET /downloads
\* sends every file that exists there, so none can be downloaded.
C39_NoFilesAfterDeletion ==
  \A c \in Codes :
    (HasBeenRegistered(c) /\ c \notin DOMAIN sessions) => FilesOf(files, c) = {}

\* the step of deleteSession that removes the code from the registry leaves no
\* tree and no file under it
DeletionRemovesFiles ==
  [][\A d \in deleting :
       DeleteSessionFinish(d)
       => /\ d.code \notin DOMAIN sessions'
          /\ d.code \notin trees'
          /\ FilesOf(files', d.code) = {}]_vars


-----------------------------------------------------------------------------
(***************************************************************************)
(* The browser's ChunkedUploader (frontend/src/services/chunkedUpload.js). *)
(* upload() runs to each await; the answer to a request, or the elapse of  *)
(* a retry timer, is a step of its own.  A request fails when the api call *)
(* throws or answers without success.  Chunks are numbered from 0.         *)
(***************************************************************************)
ChunkIndexes(u) == 0..(u.chunks - 1)

Without(seq, x) == SelectSeq(seq, LAMBDA y : y # x)

InSeq(seq, x) == \E k \in 1..Len(seq) : seq[k] = x

\* Set.prototype.add on failedChunks, kept in insertion order
AddFailed(seq, x) == IF InSeq(seq, x) THEN seq ELSE Append(seq, x)

\* upload()'s catch and finally, lines 81-86
Rejected(u, why) ==
  [u EXCEPT !.pc = "rejected", !.error = why, !.isUploading = FALSE]

\* uploadChunks lines 155-158, then upload() line 76
UploadChunksEnd(u) ==
  IF Cardinality(u.uploadedChunks) # u.chunks
  THEN Rejected(u, "Upload incomplete")
  ELSE [u EXCEPT !.pc = "complete", !.completeCalled = TRUE]

\* retryFailedChunks, lines 205-216: the for loop from the chunk at the head of
\* the indexes still to visit, up to the timer it awaits
RECURSIVE RetryFailedChunks(_)
RetryFailedChunks(u) ==
  IF u.failedChunkIndexes = <<>> THEN UploadChunksEnd(u)
  ELSE LET chunkIndex == Head(u.failedChunkIndexes)
       IN IF u.retryCount[chunkIndex] >= RetryAttempts
          THEN RetryFailedChunks(
                 [u EXCEPT !.failedChunkIndexes = Tail(u.failedChunkIndexes)])
          ELSE [u EXCEPT !.retryCount[chunkIndex] = @ + 1,
                         !.waits = Append(@, [chunk |-> chunkIndex,
                                              retry |-> u.retryCount[chunkIndex] + 1,
                                              delay |-> RetryDelay * (u.retryCount[chunkIndex] + 1)]),
                         !.pc = "retryWait"]

\* uploadChunks lines 148-153, once every uploadNext has returned
AfterPromiseAll(u) ==
  IF u.failedChunks # <<>>
  THEN RetryFailedChunks([u EXCEPT !.failedChunkIndexes = u.failedChunks])
  ELSE UploadChunksEnd(u)

\* uploadNext, lines 127-135: the worker takes the next pending chunk and sends
\* it, or returns
UploadNext(u) ==
  IF u.currentIndex < u.chunks
  THEN [u EXCEPT !.sending = @ \cup {u.currentIndex},
                 !.requests[u.currentIndex] = @ + 1,
                 !.currentIndex = @ + 1]
  ELSE IF u.sending = {} THEN AfterPromiseAll(u) ELSE u

\* lines 144-146: maxConcurrentUploads workers start, each up to its first await
RECURSIVE StartWorkers(_, _)
StartWorkers(u, n) ==
  IF n = 0 \/ u.currentIndex >= u.chunks THEN u
  ELSE StartWorkers(UploadNext(u), n - 1)

\* upload(file), lines 47-68, up to the init request
ClientUpload(n) ==
  /\ uploader.pc = "idle"
  /\ ~uploader.isUploading
  /\ uploader' = [uploader EXCEPT !.pc = "init", !.isUploading = TRUE,
                                  !.chunks = n,
                                  !.retryCount = [i \in 0..(n - 1) |-> 0],
                                  !.requests = [i \in 0..(n - 1) |-> 0]]
  /\ UNCHANGED <<sessionVars, socketVars, uploadInfo, uploads, nextUpload,
                 chunkDirs, files,
                 now, jobs, nextJob, inflight, putsLeft, response, serial,
                 returned, download, trees, quotaVars>>

\* the init request is answered, lines 62-73 and 119-148
ClientInitAnswered(ok) ==
  /\ uploader.pc = "init"
  /\ uploader' =
       IF ok
       THEN StartWorkers([uploader EXCEPT !.pc = "chunks", !.uploadId = 1],
                         MaxConcurrentUploads)
       ELSE Rejected(uploader, "init")
  /\ UNCHANGED <<sessionVars, socketVars, uploadInfo, uploads, nextUpload,
                 chunkDirs, files,
                 now, jobs, nextJob, inflight, putsLeft, response, serial,
                 returned, download, trees, quotaVars>>

\* a first-pass chunk request is answered, lines 134-140 and 186-195
ClientChunkAnswered(i, ok) ==
  /\ uploader.pc = "chunks"
  /\ i \in uploader.sending
  /\ LET u == IF ok
              THEN [uploader EXCEPT !.sending = @ \ {i},
                                    !.uploadedChunks = @ \cup {i},
                                    !.failedChunks = Without(@, i)]
              ELSE [uploader EXCEPT !.sending = @ \ {i},
                                    !.failedChunks = AddFailed(@, i)]
     IN uploader' = UploadNext(u)
  /\ UNCHANGED <<sessionVars, socketVars, uploadInfo, uploads, nextUpload,
                 chunkDirs, files,
                 now, jobs, nextJob, inflight, putsLeft, response, serial,
                 returned, download, trees, quotaVars>>

\* the retry timer fires and the chunk is sent again, lines 216-218
ClientRetryTimer ==
  /\ uploader.pc = "retryWait"
  /\ LET chunkIndex == Head(uploader.failedChunkIndexes)
     IN uploader' = [uploader EXCEPT !.pc = "retryRequest",
                                     !.requests[chunkIndex] = @ + 1]
  /\ UNCHANGED <<sessionVars, socketVars, uploadInfo, uploads, nextUpload,
                 chunkDirs, files,
                 now, jobs, nextJob, inflight, putsLeft, response, serial,
                 returned, download, trees, quotaVars>>

\* the retried request is answered, lines 186-195 and 219-226
ClientRetryAnswered(ok) ==
  /\ uploader.pc = "retryRequest"
  /\ LET chunkIndex == Head(uploader.failedChunkIndexes)
         rest == Tail(uploader.failedChunkIndexes)
     IN uploader' =
          IF ok
          THEN RetryFailedChunks(
                 [uploader EXCEPT !.uploadedChunks = @ \cup {chunkIndex},
                                  !.failedChunks = Without(@, chunkIndex),
                                  !.failedChunkIndexes = rest])
          ELSE IF uploader.retryCount[chunkIndex] >= RetryAttempts
          THEN Rejected(uploader, "failed after retries")
          ELSE RetryFailedChunks([uploader EXCEPT !.failedChunkIndexes = rest])
  /\ UNCHANGED <<sessionVars, socketVars, uploadInfo, uploads, nextUpload,
                 chunkDirs, files,
                 now, jobs, nextJob, inflight, putsLeft, response, serial,
                 returned, download, trees, quotaVars>>

\* the complete request is answered, lines 76-86
ClientCompleteAnswered(ok) ==
  /\ uploader.pc = "complete"
  /\ uploader' = IF ok
                 THEN [uploader EXCEPT !.pc = "done", !.isUploading = FALSE]
                 ELSE Rejected(uploader, "complete")
  /\ UNCHANGED <<sessionVars, socketVars, uploadInfo, uploads, nextUpload,
                 chunkDirs, files,
                 now, jobs, nextJob, inflight, putsLeft, response, serial,
                 returned, download, trees, quotaVars>>

NextUploader ==
  \/ \E n \in 1..ClientChunks : ClientUpload(n)
  \/ \E ok \in BOOLEAN : ClientInitAnswered(ok)
  \/ \E i \in 0..(ClientChunks - 1), ok \in BOOLEAN : ClientChunkAnswered(i, ok)
  \/ ClientRetryTimer
  \/ \E ok \in BOOLEAN : ClientRetryAnswered(ok)
  \/ \E ok \in BOOLEAN : ClientCompleteAnswered(ok)

SpecUploader == Init /\ [][NextUploader]_vars

\* the chunks the server has not acknowledged
Unacknowledged == ChunkIndexes(uploader) \ uploader.uploadedChunks

\* upload() has rejected after its init succeeded and without calling complete
RejectedBeforeComplete ==
  /\ uploader.pc = "rejected"
  /\ uploader.uploadId # NoUpload
  /\ ~uploader.completeCalled

\* every wait before a retry is retryDelay times the number of that retry
RetryWaitsScale ==
  \A k \in 1..Len(uploader.waits) :
    /\ uploader.waits[k].delay = RetryDelay * uploader.waits[k].retry
    /\ uploader.waits[k].retry \in 1..RetryAttempts

\* complete is called only when every chunk has been acknowledged
CompleteOnlyWhenAcknowledged ==
  uploader.completeCalled => Unacknowledged = {}

\* C40: a chunk whose request fails is sent again up to retryAttempts (3) times,
\* each time after waiting retryDelay times the number of the retry; upload()
\* rejects without calling complete only after some chunk has failed its first
\* request and all retryAttempts retries; and complete is called only when every
\* chunk has been acknowledged
C40_RetriesBeforeReject ==
  /\ RetryWaitsScale
  /\ CompleteOnlyWhenAcknowledged
  /\ RejectedBeforeComplete =>
       \E i \in Unacknowledged : uploader.requests[i] = 1 + RetryAttempts

=============================================================================
